---- MODULE Spec2Model ----
(***************************************************************************)
(* Task-Manager: the task collection hooks.                                *)
(*                                                                         *)
(* useAdvancedTasks (hooks/useAdvancedTasks) keeps three pieces of React   *)
(* state: tasks, undoStack and redoStack.  Its callbacks read `tasks`,     *)
(* `undoStack` and `redoStack` from the closure of the render that created *)
(* them (cTasks, cUndo, cRedo below) and write through the state setters,  *)
(* some with a functional updater (prev => ...) that sees the live state.  *)
(*                                                                         *)
(* Time is a small integer clock `now`; an ISO timestamp is the clock      *)
(* value it was taken at.  The value Null stands for JavaScript null and   *)
(* for an absent property alike.  A text is abstracted to the number of    *)
(* characters that survive String.trim() (core) and the number of          *)
(* surrounding white-space characters (pad).  A generated id              *)
(* (`task_${Date.now()}_${random}`) is modelled as a fresh number.         *)
(***************************************************************************)
EXTENDS Integers, Sequences, FiniteSets, TLC

VARIABLES
  tasks,      \* useState([])  : the live collection
  undoStack,  \* useState([])  : snapshots, most recent last
  redoStack,  \* useState([])  : snapshots, most recent first
  cTasks,     \* `tasks` as captured by the callbacks of the last render
  cUndo,      \* `undoStack` as captured by the last render
  cRedo,      \* `redoStack` as captured by the last render
  now,        \* the clock (Date.now / new Date())
  nextId,     \* the next fresh id
  ops,        \* number of hook calls made so far (bounds the exploration)
  lastOp,     \* history: name of the last hook call
  lastArg,    \* history: the task id (or merge option) of the last call, else 0
  lastInput,  \* history: the taskData, patch or file given to the last call
  ret,        \* history: outcome of the last hook call
  old,        \* history: state just before the last hook call
  prevOp,     \* history: lastOp, lastArg, ret, old of the call before
  gUndo,      \* history: the undo stack as it would be without a cap
  mutLog,     \* history: gUndo as it was right after the last mutation
  undoRun,    \* history: successful undos minus redos since the last mutation
  storage,    \* localStorage: the value kept under the key 'tasks'
  effects,    \* useAdvancedTasks: effects React has still to run, in order
  optimized,  \* useOptimizedTasks: operationQueue, batchTimeout, mounted
  batchProcessor, \* BatchProcessor: its fields, pending timers, batch in flight
  stateManager,   \* StateManager: state and history
  advancedCache,  \* AdvancedCache: cache and accessOrder
  trace       \* history: what the components above were asked and what they did

advVars   == <<tasks, undoStack, redoStack>>
closVars  == <<cTasks, cUndo, cRedo>>
histVars  == <<lastOp, lastArg, lastInput, ret, old, prevOp, gUndo, mutLog, undoRun>>
vars      == <<tasks, undoStack, redoStack, cTasks, cUndo, cRedo, now, nextId,
               ops, lastOp, lastArg, lastInput, ret, old, prevOp, gUndo, mutLog,
               undoRun, storage, effects, optimized, batchProcessor,
               stateManager, advancedCache, trace>>
\* the state of the components other than the hook under study
compVars  == <<storage, effects, optimized, batchProcessor, stateManager,
               advancedCache, trace>>

(***************************************************************************)
(* Bounds of the exploration                                               *)
(***************************************************************************)
MaxOps     == 3    \* hook calls per behaviour of Spec
MaxTasks   == 2    \* addTask / importTasks are not called beyond this size
MaxTime    == 2    \* the clock runs from 1 to MaxTime
MaxHistOps == 12   \* hook calls per behaviour of SpecHist
MaxUtilTasks == 3  \* size of the collections of SpecUtil
MaxBatch   == 3    \* entries of an array given to replaceTasks
MaxDays    == 5    \* calendar days of SpecStreak
SpringForward == 3 \* the day of SpecStreak on which the clocks go forward
MaxItems   == 5    \* items given to BatchProcessor.add per behaviour
batchSize  == 3    \* new BatchProcessor({batchSize})
maxWait    == 1    \* new BatchProcessor({maxWait}), in clock ticks
maxSize    == 2    \* new AdvancedCache(maxSize)

(***************************************************************************)
(* Program constants                                                       *)
(***************************************************************************)
Null       == 0     \* null / absent (falsy, like the values it stands for)
TextMax    == 200   \* validateTask: task.text.length > 200
SchemaTextMax == 500 \* ValidationEngine: task.text.length > 500
HistKeep   == 9     \* prev.slice(-9) / prev.slice(0, 9)
DayLength  == 24    \* 1000 * 60 * 60 * 24 ms, in hours
maxHistory == 50    \* StateManager: this.maxHistory = 50

TASK_CATEGORIES == {"general", "work", "personal", "health", "finance",
                    "education", "shopping", "other"}
PRIORITY_LEVELS == {"low", "medium", "high"}

(***************************************************************************)
(* Texts                                                                   *)
(***************************************************************************)
Text(core, pad) == [core |-> core, pad |-> pad]
TextLength(t)   == t.core + t.pad
\* String.prototype.trim
Trim(t)         == [core |-> t.core, pad |-> 0]
\* !task.text || task.text.trim().length === 0
TextMissing(t)  == TextLength(t) = 0 \/ TextLength(Trim(t)) = 0

(***************************************************************************)
(* validateTask (utils/taskUtils)                                          *)
(***************************************************************************)
validateTaskErrors(task, clock) ==
     (IF TextMissing(task.text) THEN {"text"} ELSE {})
  \cup (IF TextLength(task.text) > 0 /\ TextLength(task.text) > TextMax
        THEN {"text"} ELSE {})
  \cup (IF task.category # "" /\ task.category \notin TASK_CATEGORIES
        THEN {"category"} ELSE {})
  \cup (IF task.priority # "" /\ task.priority \notin PRIORITY_LEVELS
        THEN {"priority"} ELSE {})
  \cup (IF task.dueDate # Null /\ task.dueDate < clock
        THEN {"dueDate"} ELSE {})

validateTask(task, clock) ==
  [isValid |-> validateTaskErrors(task, clock) = {},
   errors  |-> validateTaskErrors(task, clock)]

(***************************************************************************)
(* Helpers on sequences                                                    *)
(***************************************************************************)
\* Array.prototype.slice(-n)
SliceLast(s, n)  == IF Len(s) <= n THEN s ELSE SubSeq(s, Len(s) - n + 1, Len(s))
\* Array.prototype.slice(0, n)
SliceFirst(s, n) == IF Len(s) <= n THEN s ELSE SubSeq(s, 1, n)
\* Array.prototype.slice(0, -1)
DropLast(s)      == SubSeq(s, 1, Len(s) - 1)
\* Array.prototype.filter
Filter(s, keep(_)) == SelectSeq(s, keep)
\* Array.prototype.map
Map(s, f(_))     == [i \in 1..Len(s) |-> f(s[i])]
Ids(s)           == {s[i].id : i \in 1..Len(s)}
\* { ...task, ...updates }
Merge(task, updates) ==
  [f \in DOMAIN task |-> IF f \in DOMAIN updates THEN updates[f] ELSE task[f]]

(***************************************************************************)
(* History bookkeeping (not program state)                                 *)
(***************************************************************************)
Snapshot == [tasks |-> tasks, undoStack |-> undoStack,
             redoStack |-> redoStack, now |-> now]

Record(op, arg, r) ==
  /\ lastOp' = op
  /\ lastArg' = arg
  /\ ret' = r
  /\ old' = Snapshot
  /\ prevOp' = [op |-> lastOp, arg |-> lastArg, ret |-> ret, old |-> old,
                before |-> prevOp.op, beforeRet |-> prevOp.ret]

\* a successful mutation: the uncapped stack receives the true prior state
RecordMutation(op, arg) ==
  /\ Record(op, arg, "ok")
  /\ gUndo' = Append(gUndo, tasks)
  /\ mutLog' = Append(gUndo, tasks)
  /\ undoRun' = 0

\* a call that changed nothing
RecordNoChange(op, arg, r) ==
  /\ Record(op, arg, r)
  /\ UNCHANGED <<gUndo, mutLog, undoRun>>

\* the catch branch of a callback: nothing was set
Fail(op, arg, r) ==
  /\ UNCHANGED <<tasks, undoStack, redoStack, nextId>>
  /\ RecordNoChange(op, arg, r)

\* The exception a useAdvancedTasks callback raises on the failure branch `r`
\* (`ret` names the branch).  On the validation branch the callbacks evaluate
\* validation.errors.join(', '); validateTask builds `errors` as a plain
\* object, which has no join method, so that expression raises a TypeError
\* and the Error with the validation messages is never constructed.
ThrownError(r) ==
  CASE r = "ValidationError" ->
         [name |-> "TypeError", errors |-> {}]
    [] r = "NotFound" ->
         [name |-> "Error", errors |-> {"Task not found"}]
    [] r = "ImportError" ->  \* JSON.parse failed, or its result is no array
         [name |-> "Error", errors |-> {"Invalid file format"}]
    [] OTHER ->
         [name |-> "none", errors |-> {}]

(***************************************************************************)
(* useAdvancedTasks                                                        *)
(***************************************************************************)
\* a push that puts the snapshot at the bottom of the stack
PushUndoBottom(prev, snap) == <<snap>> \o SliceLast(prev, HistKeep)
\* a push that keeps the oldest nine snapshots instead of the newest nine
PushUndoKeepOldest(prev, snap) == SliceFirst(prev, HistKeep) \o <<snap>>
\* setUndoStack(prev => [...prev.slice(-9), tasks])
PushUndo(prev, snap) == SliceLast(prev, HistKeep) \o <<snap>>
\* setRedoStack(prev => [tasks, ...prev.slice(0, 9)])
PushRedo(prev, snap) == <<snap>> \o SliceFirst(prev, HistKeep)
\* undo taking the oldest snapshot instead of the most recent one
PreviousStateOldest(stack) == stack[1]
\* undoStack[undoStack.length - 1]
PreviousState(stack) == stack[Len(stack)]
\* redo taking the last snapshot instead of the first one
NextStateLast(stack) == stack[Len(stack)]
\* redoStack[0]
NextState(stack) == stack[1]

NewTask(taskData, id, clock, order) ==
  [id          |-> id,
   text        |-> Trim(taskData.text),
   completed   |-> FALSE,
   completedAt |-> Null,
   createdAt   |-> clock,
   updatedAt   |-> clock,
   category    |-> IF taskData.category # "" THEN taskData.category ELSE "general",
   priority    |-> IF taskData.priority # "" THEN taskData.priority ELSE "medium",
   dueDate     |-> taskData.dueDate,
   estimatedTime |-> taskData.estimatedTime,
   actualTime  |-> Null,
   order       |-> order]

addTask(taskData) ==
  IF ~validateTask(taskData, now).isValid
  THEN Fail("addTask", 0, "ValidationError")
  ELSE /\ undoStack' = PushUndo(undoStack, cTasks)
       /\ redoStack' = <<>>
       /\ tasks' = Append(tasks, NewTask(taskData, nextId, now, Len(cTasks) + 1))
       /\ nextId' = nextId + 1
       /\ RecordMutation("addTask", nextId)

\* tasks.findIndex(task => task.id === taskId), 1-based; the id is present
FindIndex(ts, taskId) ==
  CHOOSE i \in 1..Len(ts) :
    /\ ts[i].id = taskId
    /\ \A j \in 1..(i - 1) : ts[j].id # taskId

UpdatedTask(currentTask, updates, clock) ==
  [Merge(currentTask, updates) EXCEPT !.updatedAt = clock]

\* the body of updateTask; `op` is the callback the user called
updateTaskAs(op, taskId, updates) ==
  IF taskId \notin Ids(cTasks)
  THEN Fail(op, taskId, "NotFound")
  ELSE LET taskIndex   == FindIndex(cTasks, taskId)
           updatedTask == UpdatedTask(cTasks[taskIndex], updates, now)
       IN IF ~validateTask(updatedTask, now).isValid
          THEN Fail(op, taskId, "ValidationError")
          ELSE /\ undoStack' = PushUndo(undoStack, cTasks)
               /\ redoStack' = <<>>
               /\ tasks' = Map(tasks, LAMBDA task :
                                 IF task.id = taskId THEN updatedTask ELSE task)
               /\ nextId' = nextId
               /\ RecordMutation(op, taskId)

updateTask(taskId, updates) == updateTaskAs("updateTask", taskId, updates)

\* a delete that also drops every task that follows the one deleted
deleteTaskAndRest(taskId) ==
  IF taskId \notin Ids(cTasks)
  THEN Fail("deleteTask", taskId, "NotFound")
  ELSE /\ undoStack' = PushUndo(undoStack, cTasks)
       /\ redoStack' = <<>>
       /\ tasks' = SubSeq(tasks, 1, FindIndex(cTasks, taskId) - 1)
       /\ nextId' = nextId
       /\ RecordMutation("deleteTask", taskId)
\* setTasks(prev => prev.filter(task => task.id !== taskId))
deleteTask(taskId) ==
  IF taskId \notin Ids(cTasks)
  THEN Fail("deleteTask", taskId, "NotFound")
  ELSE /\ undoStack' = PushUndo(undoStack, cTasks)
       /\ redoStack' = <<>>
       /\ tasks' = Filter(tasks, LAMBDA task : task.id # taskId)
       /\ nextId' = nextId
       /\ RecordMutation("deleteTask", taskId)

\* a toggle that stamps completedAt in both directions
ToggleUpdatesNeverCleared(task, clock) ==
  [completed |-> ~task.completed, completedAt |-> clock]
\* { completed: !task.completed,
\*   completedAt: !task.completed ? new Date().toISOString() : null }
ToggleUpdates(task, clock) ==
  [completed   |-> ~task.completed,
   completedAt |-> IF ~task.completed THEN clock ELSE Null]

toggleTask(taskId) ==
  IF taskId \notin Ids(cTasks)
  THEN Fail("toggleTask", taskId, "noop")
  ELSE LET task == cTasks[FindIndex(cTasks, taskId)]
       IN updateTaskAs("toggleTask", taskId, ToggleUpdates(task, now))

bulkUpdate(taskIds, updates) ==
  /\ undoStack' = PushUndo(undoStack, cTasks)
  /\ redoStack' = <<>>
  /\ tasks' = Map(cTasks, LAMBDA task :
                    IF task.id \in taskIds
                    THEN UpdatedTask(task, updates, now) ELSE task)
  /\ nextId' = nextId
  /\ RecordMutation("bulkUpdate", 0)

\* a bulk delete that gives up when one of the ids is not in the collection
bulkDeleteStrict(taskIds) ==
  IF taskIds \subseteq Ids(cTasks)
  THEN /\ undoStack' = PushUndo(undoStack, cTasks)
       /\ redoStack' = <<>>
       /\ tasks' = Filter(tasks, LAMBDA task : task.id \notin taskIds)
       /\ nextId' = nextId
       /\ RecordMutation("bulkDelete", 0)
  ELSE Fail("bulkDelete", 0, "NotFound")
bulkDelete(taskIds) ==
  /\ undoStack' = PushUndo(undoStack, cTasks)
  /\ redoStack' = <<>>
  /\ tasks' = Filter(tasks, LAMBDA task : task.id \notin taskIds)
  /\ nextId' = nextId
  /\ RecordMutation("bulkDelete", 0)

clearTasks ==
  /\ undoStack' = PushUndo(undoStack, cTasks)
  /\ redoStack' = <<>>
  /\ tasks' = <<>>
  /\ nextId' = nextId
  /\ RecordMutation("clearTasks", 0)

undo ==
  IF Len(cUndo) = 0
  THEN Fail("undo", 0, "false")
  ELSE /\ redoStack' = PushRedo(redoStack, cTasks)
       /\ undoStack' = DropLast(undoStack)
       /\ tasks' = PreviousState(cUndo)
       /\ nextId' = nextId
       /\ Record("undo", 0, "true")
       /\ gUndo' = DropLast(gUndo)
       /\ undoRun' = undoRun + 1
       /\ mutLog' = mutLog

redo ==
  IF Len(cRedo) = 0
  THEN Fail("redo", 0, "false")
  ELSE /\ undoStack' = PushUndo(undoStack, cTasks)
       /\ redoStack' = Tail(redoStack)
       /\ tasks' = NextState(cRedo)
       /\ nextId' = nextId
       /\ Record("redo", 0, "true")
       /\ gUndo' = Append(gUndo, tasks)
       /\ undoRun' = undoRun - 1
       /\ mutLog' = mutLog

\* JSON.stringify(tasks, null, 2): every task is written as its list of
\* "key": value members
JsonStringify(ts) ==
  [i \in 1..Len(ts) |-> {<<f, ts[i][f]>> : f \in DOMAIN ts[i]}]
\* JSON.parse of such a text: every object is rebuilt from its members
JsonParse(text) ==
  [i \in 1..Len(text) |->
     [f \in {m[1] : m \in text[i]} |->
        (CHOOSE m \in text[i] : m[1] = f)[2]]]

\* exportTasks('json'): the content of the file offered for download
exportTasks(ts) == [parses |-> TRUE, isArray |-> TRUE, text |-> JsonStringify(ts)]

\* the merge option as the history records it
MergeArg(merge) == IF merge THEN 1 ELSE 0

\* an import that takes the valid tasks of the file and drops the others
importTasksPartial(file, merge, validate) ==
  IF ~file.parses \/ ~file.isArray
  THEN Fail("importTasks", MergeArg(merge), "ImportError")
  ELSE LET importedTasks ==
             SelectSeq(JsonParse(file.text),
                       LAMBDA task : validateTask(task, now).isValid)
       IN /\ undoStack' = PushUndo(undoStack, cTasks)
          /\ redoStack' = <<>>
          /\ tasks' = IF merge THEN tasks \o importedTasks ELSE importedTasks
          /\ nextId' = nextId
          /\ RecordMutation("importTasks", MergeArg(merge))
\* importTasks of a .json file: `parses` tells whether JSON.parse accepts the
\* text, `isArray` whether it parsed to an array, `text` is the text
importTasks(file, merge, validate) ==
  IF ~file.parses \/ ~file.isArray
  THEN Fail("importTasks", MergeArg(merge), "ImportError")
  ELSE LET importedTasks == JsonParse(file.text)
           errors == IF validate
                     THEN {index \in 1..Len(importedTasks) :
                             ~validateTask(importedTasks[index], now).isValid}
                     ELSE {}
       IN IF errors # {}
          THEN Fail("importTasks", MergeArg(merge), "ValidationError")
          ELSE /\ undoStack' = PushUndo(undoStack, cTasks)
               /\ redoStack' = <<>>
               /\ tasks' = IF merge THEN tasks \o importedTasks ELSE importedTasks
               /\ nextId' = nextId
               /\ RecordMutation("importTasks", MergeArg(merge))

\* a percentage that is cut instead of rounded
RoundPercentFloor(x, y) == (100 * x) \div y
\* Math.round(x / y * 100) for x >= 0, y > 0
RoundPercent(x, y) == (200 * x + y) \div (2 * y)

\* taskStats
taskStats(ts, clock) ==
  LET total     == Len(ts)
      completed == Len(Filter(ts, LAMBDA t : t.completed))
      overdue   == Len(Filter(ts, LAMBDA t :
                         ~t.completed /\ t.dueDate # Null /\ t.dueDate < clock))
  IN [total          |-> total,
      completed      |-> completed,
      pending        |-> total - completed,
      overdue        |-> overdue,
      completionRate |-> IF total > 0 THEN RoundPercent(completed, total) ELSE 0]

(***************************************************************************)
(* The toggle updaters of the two other hooks (the functions they hand to  *)
(* setTasks / batchOperation)                                              *)
(***************************************************************************)
\* useTasks.toggleTask: completedAt is not touched
useTasksToggle(prevTasks, id, clock) ==
  Map(prevTasks, LAMBDA task :
        IF task.id = id
        THEN [task EXCEPT
                !.completed  = ~task.completed,
                !.updatedAt  = clock,
                !.actualTime = IF ~task.completed /\ task.estimatedTime # Null
                               THEN task.estimatedTime ELSE task.actualTime]
        ELSE task)

\* useOptimizedTasks.toggleTask
useOptimizedTasksToggle(ts, id, clock) ==
  Map(ts, LAMBDA task :
        IF task.id = id
        THEN [task EXCEPT
                !.completed   = ~task.completed,
                !.completedAt = IF ~task.completed THEN clock ELSE Null,
                !.updatedAt   = clock]
        ELSE task)

(***************************************************************************)
(* useTasks: what each callback computes from the collection it is given.  *)
(* A result is the next collection and the exception raised, if any.       *)
(***************************************************************************)
NoError == [name |-> "none", errors |-> {}]

\* useTasks.addTask: throw new Error(Object.values(validation.errors).join(', '))
useTasksAddTask(prevTasks, taskData, id, clock) ==
  LET validation == validateTask(taskData, clock)
  IN IF ~validation.isValid
     THEN [thrown |-> [name |-> "Error", errors |-> validation.errors],
           tasks  |-> prevTasks]
     ELSE [thrown |-> NoError,
           tasks  |-> Append(prevTasks,
                             NewTask(taskData, id, clock, Len(prevTasks) + 1))]

\* useTasks.updateTask: the updater maps over the collection and throws on
\* the first matching task whose merged version fails validation; an id that
\* matches nothing leaves every task as it is and raises nothing
useTasksUpdateTask(prevTasks, id, updates, clock) ==
  LET hit(i)     == prevTasks[i].id = id
      merged(i)  == UpdatedTask(prevTasks[i], updates, clock)
      invalid    == {i \in 1..Len(prevTasks) :
                       hit(i) /\ ~validateTask(merged(i), clock).isValid}
  IN IF invalid # {}
     THEN LET i == CHOOSE k \in invalid : \A j \in invalid : k <= j
          IN [thrown |-> [name   |-> "Error",
                          errors |-> validateTask(merged(i), clock).errors],
              tasks  |-> prevTasks]
     ELSE [thrown |-> NoError,
           tasks  |-> [i \in 1..Len(prevTasks) |->
                         IF hit(i) THEN merged(i) ELSE prevTasks[i]]]

\* useTasks.deleteTask: prevTasks.filter(task => task.id !== id)
useTasksDeleteTask(prevTasks, id) ==
  [thrown |-> NoError,
   tasks  |-> Filter(prevTasks, LAMBDA task : task.id # id)]

\* useTasks.bulkUpdateTasks: no validation
useTasksBulkUpdateTasks(prevTasks, taskIds, updates, clock) ==
  [thrown |-> NoError,
   tasks  |-> Map(prevTasks, LAMBDA task :
                    IF task.id \in taskIds
                    THEN UpdatedTask(task, updates, clock) ELSE task)]

\* useTasks.bulkDeleteTasks
useTasksBulkDeleteTasks(prevTasks, taskIds) ==
  [thrown |-> NoError,
   tasks  |-> Filter(prevTasks, LAMBDA task : task.id \notin taskIds)]

\* useTasks.taskStats: no completionRate
useTasksTaskStats(ts, clock) ==
  LET total     == Len(ts)
      completed == Len(Filter(ts, LAMBDA task : task.completed))
      overdue   == Len(Filter(ts, LAMBDA task :
                         /\ ~task.completed
                         /\ task.dueDate # Null /\ task.dueDate < clock))
  IN [total     |-> total,
      completed |-> completed,
      pending   |-> total - completed,
      overdue   |-> overdue]

\* a replace that refuses the whole batch when one entry is invalid
replaceTasksAllOrNothing(newTasks, clock, fresh) ==
  IF newTasks.isArray
     /\ \A index \in 1..Len(newTasks.entries) :
           validateTask(newTasks.entries[index], clock).isValid
  THEN [index \in 1..Len(newTasks.entries) |->
          [newTasks.entries[index] EXCEPT !.updatedAt = clock]]
  ELSE <<>>
\* useTasks.replaceTasks: the collection it hands to setTasks.  `newTasks` is
\* the argument: `isArray` tells whether it is an array, `entries` is that
\* array; an entry holds Null (or "" for a string) where it has no property.
\* `fresh` is the number the generated ids start after.
replaceTasks(newTasks, clock, fresh) ==
  IF ~newTasks.isArray
  THEN <<>>
  ELSE LET entries == newTasks.entries
           \* the task built for a valid entry
           Sanitized(index) ==
             LET task == entries[index]
             IN [id          |-> IF task.id # Null THEN task.id ELSE fresh + index,
                 text        |-> Trim(task.text),
                 completed   |-> task.completed,
                 completedAt |-> Null,   \* not copied
                 createdAt   |-> IF task.createdAt # Null
                                 THEN task.createdAt ELSE clock,
                 updatedAt   |-> clock,
                 category    |-> IF task.category # ""
                                 THEN task.category ELSE "general",
                 priority    |-> IF task.priority # ""
                                 THEN task.priority ELSE "medium",
                 dueDate     |-> task.dueDate,
                 estimatedTime |-> task.estimatedTime,
                 actualTime  |-> task.actualTime,
                 order       |-> IF task.order # Null THEN task.order ELSE index]
           \* .map(...) : null for an invalid entry; .filter(Boolean)
           kept == {index \in 1..Len(entries) :
                      validateTask(entries[index], clock).isValid}
           \* the index of the k-th kept entry
           Nth(k) == CHOOSE index \in kept :
                       Cardinality({j \in kept : j <= index}) = k
       IN [k \in 1..Cardinality(kept) |-> Sanitized(Nth(k))]

(***************************************************************************)
(* utils/taskUtils: filterTasks, sortTasks, TaskAnalytics                  *)
(***************************************************************************)
\* a filter whose 'pending' leaves the overdue tasks out
filterTasksPendingNotOverdue(ts, filter, clock) ==
  CASE filter = "completed" -> Filter(ts, LAMBDA task : task.completed)
    [] filter = "pending" ->
         Filter(ts, LAMBDA task :
                  ~task.completed
                  /\ ~(task.dueDate # Null /\ task.dueDate < clock))
    [] filter = "overdue" ->
         Filter(ts, LAMBDA task :
                  ~task.completed /\ task.dueDate # Null /\ task.dueDate < clock)
    [] OTHER -> ts
\* filterTasks(tasks, filter); `clock` is what new Date() returns, a clock
\* value being one day for the 'today' filter
filterTasks(ts, filter, clock) ==
  CASE filter = "completed" -> Filter(ts, LAMBDA task : task.completed)
    [] filter = "pending"   -> Filter(ts, LAMBDA task : ~task.completed)
    [] filter = "overdue" ->
         Filter(ts, LAMBDA task :
                  ~task.completed /\ task.dueDate # Null /\ task.dueDate < clock)
    [] filter = "today" ->
         Filter(ts, LAMBDA task : task.dueDate # Null /\ task.dueDate = clock)
    [] OTHER -> ts

\* PRIORITY_LEVELS[task.priority]?.weight || 0
PriorityWeight(priority) ==
  CASE priority = "low"    -> 1
    [] priority = "medium" -> 2
    [] priority = "high"   -> 3
    [] OTHER               -> 0

\* a sort that reverses the elements of equal key
SortedByKeyTiesReversed(s, keys) ==
  LET pos(i) == Cardinality({j \in 1..Len(s) :
                   keys[j] < keys[i] \/ (keys[j] = keys[i] /\ j > i)}) + 1
  IN [p \in 1..Len(s) |-> s[CHOOSE i \in 1..Len(s) : pos(i) = p]]
\* Array.prototype.sort with a comparator (a, b) => key(a) - key(b): the
\* elements by ascending key, elements of equal key in their original order;
\* `keys` holds the key of every element
SortedByKey(s, keys) ==
  LET pos(i) == Cardinality({j \in 1..Len(s) :
                   keys[j] < keys[i] \/ (keys[j] = keys[i] /\ j < i)}) + 1
  IN [p \in 1..Len(s) |-> s[CHOOSE i \in 1..Len(s) : pos(i) = p]]

\* sortTasks(tasks, sortBy) for sortBy 'priority' and 'order' (the default):
\* a sorted copy, the argument is left alone
sortTasks(ts, sortBy) ==
  CASE sortBy = "priority" ->
         SortedByKey(ts, [i \in 1..Len(ts) |-> 0 - PriorityWeight(ts[i].priority)])
    [] OTHER ->
         SortedByKey(ts, [i \in 1..Len(ts) |-> ts[i].order])

Max(a, b) == IF a >= b THEN a ELSE b
\* Math.round(n / d) for d > 0: the integer nearest to n / d, halves upwards
RoundDiv(n, d) == (2 * n + d) \div (2 * d)

\* a score computed from the rounded completion rate
calculateProductivityScoreRounded(ts, clock) ==
  LET stats == taskStats(ts, clock)
  IN IF stats.total = 0
     THEN 100
     ELSE Max(0, RoundDiv(stats.completionRate * stats.total
                            - 20 * stats.overdue, stats.total))
\* TaskAnalytics.calculateProductivityScore;
\* completed / total * 100 - overdue / total * 20 = (100 c - 20 o) / total
calculateProductivityScore(ts, clock) ==
  LET completed == Len(Filter(ts, LAMBDA t : t.completed))
      total     == Len(ts)
      overdue   == Len(Filter(ts, LAMBDA t :
                         ~t.completed /\ t.dueDate # Null /\ t.dueDate < clock))
  IN IF total = 0
     THEN 100
     ELSE Max(0, RoundDiv(100 * completed - 20 * overdue, total))

(***************************************************************************)
(* Reordering: useTasks.moveTask and useOptimizedTasks.reorderTasks.       *)
(* Indices are those of JavaScript (0-based); element i of an array is     *)
(* element i + 1 of the sequence that models it.                           *)
(***************************************************************************)
\* array.splice(index, 1)
RemoveAt(s, index) ==
  [i \in 1..(Len(s) - 1) |-> IF i <= index THEN s[i] ELSE s[i + 1]]
\* a splice that always inserts at the end
InsertAtEnd(s, index, x) == Append(s, x)
\* array.splice(index, 0, x); an index beyond the end inserts at the end
InsertAt(s, index, x) ==
  LET at == IF index > Len(s) THEN Len(s) ELSE index
  IN [i \in 1..(Len(s) + 1) |->
        IF i <= at THEN s[i] ELSE IF i = at + 1 THEN x ELSE s[i - 1]]

\* useTasks.moveTask: the updater handed to setTasks
useTasksMoveTask(prevTasks, dragIndex, hoverIndex, clock) ==
  LET dragTask == prevTasks[dragIndex + 1]
      newTasks == InsertAt(RemoveAt(prevTasks, dragIndex), hoverIndex, dragTask)
  IN [i \in 1..Len(newTasks) |->
        [newTasks[i] EXCEPT !.order = (i - 1) + 1, !.updatedAt = clock]]

\* useOptimizedTasks.reorderTasks: the operation handed to batchOperation
reorderTasks(ts, startIndex, endIndex, clock) ==
  LET removed == ts[startIndex + 1]
      result  == InsertAt(RemoveAt(ts, startIndex), endIndex, removed)
  IN [i \in 1..Len(result) |->
        [result[i] EXCEPT !.order = i - 1, !.updatedAt = clock]]

(***************************************************************************)
(* calculateStreakData (utils/progressUtils).  In SpecStreak the clock     *)
(* counts hours of local time in a zone with daylight saving: calendar day *)
(* d starts at Midnight(d), and day SpringForward is one hour short.       *)
(***************************************************************************)
\* new Date(dateString): local midnight of the calendar day
Midnight(d) == DayLength * d - (IF d > SpringForward THEN 1 ELSE 0)
\* new Date(instant).toDateString(): the calendar day of an instant
DateOf(t) ==
  CHOOSE d \in 0..(MaxDays + 2) : Midnight(d) <= t /\ t < Midnight(d + 1)
\* a day difference taken on the calendar
DayDiffCalendar(currentDate, nextDate) == currentDate - nextDate
\* Math.floor((currentDate - nextDate) / (1000 * 60 * 60 * 24))
DayDiff(currentDate, nextDate) ==
  (Midnight(currentDate) - Midnight(nextDate)) \div DayLength

\* Object.keys(tasksByDate).sort((a, b) => new Date(b) - new Date(a))
RECURSIVE SortedDescending(_)
SortedDescending(days) ==
  IF days = {} THEN <<>>
  ELSE LET latest == CHOOSE d \in days : \A e \in days : e <= d
       IN <<latest>> \o SortedDescending(days \ {latest})

\* the loop that extends the current streak from dates[i]
RECURSIVE CurrentStreakFrom(_, _, _)
CurrentStreakFrom(dates, i, currentStreak) ==
  IF i > Len(dates) THEN currentStreak
  ELSE IF DayDiff(dates[i - 1], dates[i]) = 1
       THEN CurrentStreakFrom(dates, i + 1, currentStreak + 1)
       ELSE currentStreak

\* the loop that finds the longest streak
RECURSIVE LongestStreakFrom(_, _, _, _)
LongestStreakFrom(dates, i, tempStreak, longestStreak) ==
  IF i > Len(dates) THEN Max(longestStreak, tempStreak)
  ELSE IF DayDiff(dates[i - 1], dates[i]) = 1
       THEN LongestStreakFrom(dates, i + 1, tempStreak + 1, longestStreak)
       ELSE LongestStreakFrom(dates, i + 1, 1, Max(longestStreak, tempStreak))

calculateStreakData(ts, clock) ==
  LET completedTasks == Filter(ts, LAMBDA t : t.completed /\ t.completedAt # Null)
      dates == SortedDescending({DateOf(completedTasks[i].completedAt) :
                                   i \in 1..Len(completedTasks)})
      today == DateOf(clock)
      yesterday == today - 1
      currentStreak ==
        IF Len(dates) > 0 /\ (dates[1] = today \/ dates[1] = yesterday)
        THEN CurrentStreakFrom(dates, 2, 1) ELSE 0
      longestStreak ==
        IF Len(completedTasks) > 0 THEN LongestStreakFrom(dates, 2, 1, 0) ELSE 0
  IN [current     |-> currentStreak,
      longest     |-> longestStreak,
      isActive    |-> currentStreak > 0,
      streakDates |-> SliceFirst(dates, currentStreak)]

(***************************************************************************)
(* useOptimizedTasks: operations are functions from collection to          *)
(* collection, queued by batchOperation and applied by its 16 ms timer.    *)
(* An operation is modelled by a record that names the callback and its    *)
(* arguments; `pending` holds the ids of the timers that have not fired.   *)
(***************************************************************************)
\* op(updatedTasks): the function a callback handed to batchOperation
ApplyOperation(op, ts, clock) ==
  CASE op.kind = "add" -> Append(ts, op.task)
    [] op.kind = "update" ->
         Map(ts, LAMBDA task :
               IF task.id = op.id
               THEN UpdatedTask(task, op.updates, clock) ELSE task)
    [] op.kind = "delete" -> Filter(ts, LAMBDA task : task.id # op.id)
    [] op.kind = "toggle" -> useOptimizedTasksToggle(ts, op.id, clock)
    [] op.kind = "bulkUpdate" ->
         Map(ts, LAMBDA task :
               IF task.id \in op.taskIds
               THEN UpdatedTask(task, op.updates, clock) ELSE task)
    [] op.kind = "reorder" -> reorderTasks(ts, op.startIndex, op.endIndex, clock)

\* operations.forEach(op => { updatedTasks = op(updatedTasks) })
RECURSIVE ApplyOperations(_, _, _)
ApplyOperations(operations, ts, clock) ==
  IF operations = <<>> THEN ts
  ELSE ApplyOperations(Tail(operations),
                       ApplyOperation(Head(operations), ts, clock), clock)

\* batchOperation: queue the operation, replace the timer
batchOperation(operation) ==
  /\ optimized' = [optimized EXCEPT
                     !.operationQueue = Append(@, operation),
                     !.batchTimeout = nextId,
                     !.pending = {nextId}]
  /\ nextId' = nextId + 1
  /\ trace' = [trace EXCEPT !.issued = Append(@, operation)]
  /\ UNCHANGED tasks

\* the timer callback: take the queue, apply it in one setTasks
batchTimeoutFires ==
  /\ optimized.pending # {}
  /\ LET operations == optimized.operationQueue
     IN /\ tasks' = ApplyOperations(operations, tasks, now)
        /\ trace' = [trace EXCEPT !.applied = @ \o operations]
  /\ optimized' = [optimized EXCEPT !.operationQueue = <<>>, !.pending = {}]
  /\ UNCHANGED nextId

\* the cleanup of the unmount effect: clearTimeout(batchTimeout.current)
unmountCleanup ==
  /\ optimized.mounted
  /\ optimized' = [optimized EXCEPT !.mounted = FALSE, !.pending = {}]
  /\ UNCHANGED <<tasks, nextId, trace>>

(***************************************************************************)
(* BatchProcessor (utils/advancedOptimizations).  Each operator gives the  *)
(* object after the code has run up to its next await or return.           *)
(***************************************************************************)
\* the id setTimeout returns: one that names no timer of this object
FreshTimer(bp) ==
  CHOOSE t \in 1..(Cardinality(bp.timers) + 2) :
    /\ t \notin bp.timers \cup {bp.timeoutId}
    /\ \A u \in 1..(t - 1) : u \in bp.timers \cup {bp.timeoutId}
\* this.timeoutId = setTimeout(() => this.processBatch(), this.delay)
SetTimer(bp) ==
  [bp EXCEPT !.timeoutId = FreshTimer(bp), !.timers = @ \cup {FreshTimer(bp)}]

\* processBatch from `this.processing = true` to the await
StartBatch(bp) ==
  [bp EXCEPT !.processing = TRUE,
             !.timers     = @ \ {bp.timeoutId},
             !.timeoutId  = Null,
             !.startTime  = Null,
             !.queue      = SubSeq(bp.queue, Len(SliceFirst(bp.queue, batchSize)) + 1,
                                   Len(bp.queue)),
             !.inflight   = Append(@, SliceFirst(bp.queue, batchSize))]
\* a processBatch without the `this.processing` guard
processBatchUnguarded(bp) ==
  IF bp.queue = <<>> THEN bp ELSE StartBatch(bp)
\* processBatch up to its await
processBatch(bp) ==
  IF bp.processing \/ bp.queue = <<>> THEN bp ELSE StartBatch(bp)

\* add(item)
add(bp, item, clock) ==
  LET queued == [bp EXCEPT !.queue = Append(@, item),
                           !.startTime = IF @ = Null THEN clock ELSE @]
      shouldProcessNow ==
        \/ Len(queued.queue) >= batchSize
        \/ clock - queued.startTime >= maxWait
  IN IF shouldProcessNow THEN processBatch(queued)
     ELSE IF queued.timeoutId = Null THEN SetTimer(queued)
     ELSE queued

\* the timer t expires: () => this.processBatch()
timerExpires(bp, t) == processBatch([bp EXCEPT !.timers = @ \ {t}])

\* the finally block of processBatch, once batch i has settled
finishBatch(bp, i, clock) ==
  LET done == [bp EXCEPT !.processing = FALSE,
                         !.inflight = RemoveAt(@, i - 1)]
  IN IF Len(done.queue) > 0
     THEN SetTimer([done EXCEPT !.startTime = clock])
     ELSE done

(***************************************************************************)
(* TaskBatchProcessor (components/EnhancedTaskManager): a BatchProcessor   *)
(* whose items are operations {type, id, data} on the task store of        *)
(* useTasks.  A CREATE carries the id its task will be given.              *)
(***************************************************************************)
\* items.reduce(...) and Object.entries(operations): the items grouped by
\* type, the types in the order of their first item
RECURSIVE GroupedByType(_)
GroupedByType(items) ==
  IF items = <<>> THEN <<>>
  ELSE LET type == Head(items).type
       IN <<Filter(items, LAMBDA item : item.type = type)>>
          \o GroupedByType(Filter(items, LAMBDA item : item.type # type))

\* this.taskManager.addTask / updateTask / deleteTask for one operation
TaskManagerCall(op, ts, clock) ==
  CASE op.type = "CREATE" -> useTasksAddTask(ts, op.data, op.id, clock)
    [] op.type = "UPDATE" -> useTasksUpdateTask(ts, op.id, op.data, clock)
    [] op.type = "DELETE" -> useTasksDeleteTask(ts, op.id)

\* batchCreateTasks / batchUpdateTasks / batchDeleteTasks under the try of
\* processBatchItems: operations.map(...) stops at the first call that
\* throws.  The result is the store and the calls that were made.
RECURSIVE BatchGroup(_, _, _, _)
BatchGroup(operations, ts, calls, clock) ==
  IF operations = <<>> THEN [tasks |-> ts, calls |-> calls]
  ELSE LET result == TaskManagerCall(Head(operations), ts, clock)
       IN IF result.thrown # NoError
          THEN [tasks |-> ts, calls |-> Append(calls, Head(operations))]
          ELSE BatchGroup(Tail(operations), result.tasks,
                          Append(calls, Head(operations)), clock)

\* for (const [type, ops] of Object.entries(operations)) ...
RECURSIVE BatchGroups(_, _, _, _)
BatchGroups(groups, ts, calls, clock) ==
  IF groups = <<>> THEN [tasks |-> ts, calls |-> calls]
  ELSE LET done == BatchGroup(Head(groups), ts, calls, clock)
       IN BatchGroups(Tail(groups), done.tasks, done.calls, clock)

\* TaskBatchProcessor.processBatchItems
processBatchItems(items, ts, clock) ==
  BatchGroups(GroupedByType(items), ts, <<>>, clock)

(***************************************************************************)
(* StateManager (utils/advancedOptimizations).  The only middleware in use *)
(* (performanceMiddleware) returns the updates it is given.                *)
(***************************************************************************)
\* new StateManager(initialState)
NewStateManager(initialState) == [state |-> initialState, history |-> <<>>]

\* setState(updates)
setState(sm, updates, clock) ==
  LET prevState == sm.state
      newState  == Merge(sm.state, updates)
      pushed    == Append(sm.history,
                          [timestamp |-> clock, prevState |-> prevState,
                           updates |-> updates, newState |-> newState])
  IN [state   |-> newState,
      history |-> IF Len(pushed) > maxHistory THEN Tail(pushed) ELSE pushed]

\* undo(): the value returned and the object afterwards
undoState(sm) ==
  IF Len(sm.history) < 2
  THEN [returned |-> FALSE, sm |-> sm]
  ELSE LET popped   == DropLast(sm.history)
           previous == popped[Len(popped)]
       IN [returned |-> TRUE,
           sm |-> [state |-> previous.newState, history |-> popped]]

(***************************************************************************)
(* AdvancedCache (utils/enhancedPerformance).  A Map is the sequence of    *)
(* its entries in iteration order, which is the order of first insertion:  *)
(* Map.prototype.set on a key that is present replaces the value in place. *)
(***************************************************************************)
MapKeys(m) == {m[i].key : i \in 1..Len(m)}
\* Map.prototype.get; the key is present
MapGet(m, key) == m[CHOOSE i \in 1..Len(m) : m[i].key = key]
\* a Map.prototype.set that moves a key that is present to the end
MapSetMoveToEnd(m, entry) ==
  Append(Filter(m, LAMBDA e : e.key # entry.key), entry)
\* Map.prototype.set
MapSet(m, entry) ==
  IF entry.key \in MapKeys(m)
  THEN Map(m, LAMBDA e : IF e.key = entry.key THEN entry ELSE e)
  ELSE Append(m, entry)
\* Map.prototype.delete
MapDelete(m, key) == Filter(m, LAMBDA e : e.key # key)

\* delete(key)
cacheDelete(ac, key) ==
  [cache |-> MapDelete(ac.cache, key),
   accessOrder |-> MapDelete(ac.accessOrder, key)]

\* the keys set() removes to make room: this.accessOrder.keys().next().value
OldestKeys(ac, key) ==
  IF Len(ac.cache) >= maxSize /\ key \notin MapKeys(ac.cache)
     /\ ac.accessOrder # <<>>
  THEN {ac.accessOrder[1].key} ELSE {}

\* set(key, value, ttl)
cacheSet(ac, key, value, ttl, clock) ==
  LET expiresAt == IF ttl # 0 THEN clock + ttl ELSE Null
      room == IF OldestKeys(ac, key) = {} THEN ac
              ELSE cacheDelete(ac, ac.accessOrder[1].key)
  IN [cache |-> MapSet(room.cache,
                       [key |-> key, value |-> value, createdAt |-> clock,
                        expiresAt |-> expiresAt, accessCount |-> 0]),
      accessOrder |-> MapSet(room.accessOrder, [key |-> key, time |-> clock])]

\* get(key): the value returned ("undefined" when there is none) and the
\* object afterwards
cacheGet(ac, key, clock) ==
  IF key \notin MapKeys(ac.cache)
  THEN [returned |-> "undefined", ac |-> ac]
  ELSE LET item == MapGet(ac.cache, key)
       IN IF item.expiresAt # Null /\ clock > item.expiresAt
          THEN [returned |-> "undefined", ac |-> cacheDelete(ac, key)]
          ELSE [returned |-> item.value,
                ac |-> [cache |-> MapSet(ac.cache,
                                         [item EXCEPT !.accessCount = @ + 1]),
                        accessOrder |-> MapSet(ac.accessOrder,
                                               [key |-> key, time |-> clock])]]

(***************************************************************************)
(* Inputs                                                                  *)
(***************************************************************************)
Times == 1..MaxTime

NoInput   == [text |-> Text(0, 0), category |-> "", priority |-> "",
              dueDate |-> Null, estimatedTime |-> Null]
BaseInput == [text |-> Text(1, 0), category |-> "", priority |-> "",
              dueDate |-> Null, estimatedTime |-> Null]

\* what the user of a long session types: plain tasks, tasks with a due
\* date, and a priority the form does not offer
SessionInputs ==
     {BaseInput, [BaseInput EXCEPT !.priority = "urgent"]}
  \cup {[BaseInput EXCEPT !.dueDate = d] : d \in {1, MaxTime}}

\* the base input, and the base input with one field changed
AddInputs ==
     {BaseInput}
  \cup {[BaseInput EXCEPT !.text = t] :
          t \in {Text(0, 0), Text(0, 1), Text(1, 1), Text(TextMax, 0),
                 Text(TextMax + 1, 0), Text(SchemaTextMax, 0),
                 Text(SchemaTextMax + 1, 0)}}
  \cup {[BaseInput EXCEPT !.category = c] : c \in {"work", "bogus"}}
  \cup {[BaseInput EXCEPT !.priority = p] : p \in {"high", "urgent"}}
  \cup {[BaseInput EXCEPT !.dueDate = d] : d \in Times}

Patches ==
  {[completed |-> TRUE], [priority |-> "urgent"]}

\* a task as a foreign export file may hold it
FileTask(id, completed, completedAt, priority) ==
  [id |-> id, text |-> Text(1, 0), completed |-> completed,
   completedAt |-> completedAt, createdAt |-> 1, updatedAt |-> 1,
   category |-> "work", priority |-> priority, dueDate |-> Null,
   estimatedTime |-> Null, actualTime |-> Null, order |-> 1]

\* files that cannot be imported: one that does not parse, one that holds no
\* array, one with an invalid task
BadFiles ==
  {[parses |-> FALSE, isArray |-> FALSE, text |-> <<>>],
   [parses |-> TRUE,  isArray |-> FALSE, text |-> <<>>],
   exportTasks(<<FileTask(8, FALSE, Null, "low"),
                 FileTask(9, FALSE, Null, "urgent")>>)}
\* the export of the collection on screen, a foreign export with a completed
\* task, and one with the same id twice
GoodFiles ==
  {exportTasks(cTasks),
   exportTasks(<<FileTask(1, TRUE, 1, "high")>>),
   exportTasks(<<FileTask(7, FALSE, Null, "low"),
                 FileTask(7, FALSE, Null, "high")>>)}
ImportFiles == BadFiles \cup GoodFiles
\* the merge options tried with a file: both for the export of the collection
\* on screen, the default for the others
MergeArgs(file) ==
  IF file = exportTasks(cTasks) /\ cTasks # <<>> THEN BOOLEAN ELSE {FALSE}

\* a patch of ImprovedHome.handleBulkAction, and one outside the enums
BulkPatches ==
  {[completed |-> TRUE], [priority |-> "urgent"]}

\* ids the user can name: those on screen and one that does not exist
IdArgs == Ids(cTasks) \cup {nextId}
\* selections: the first task on screen, everything on screen, or an id
\* that does not exist
IdSetArgs ==
  {Ids(cTasks), {nextId}} \cup {{cTasks[i].id} : i \in {1} \cap DOMAIN cTasks}
\* the same selections, and the first task together with an id that does not
\* exist
IdSetArgsMixed ==
  IdSetArgs \cup {{cTasks[i].id, nextId} : i \in {1} \cap DOMAIN cTasks}

(***************************************************************************)
(* The other components before they are constructed or used                *)
(***************************************************************************)
NoStorage   == [present |-> FALSE, parses |-> FALSE, isArray |-> FALSE,
                text |-> <<>>]
NoOptimized == [operationQueue |-> <<>>, batchTimeout |-> Null,
                pending |-> {}, mounted |-> FALSE]
\* `timers` holds the ids of the setTimeout calls that have neither fired
\* nor been cleared, `inflight` the batches whose processBatchItems promise
\* has not settled
NoBatchProcessor ==
  [queue |-> <<>>, processing |-> FALSE, timeoutId |-> Null,
   startTime |-> Null, timers |-> {}, inflight |-> <<>>]
NoStateManager  == [state |-> Null, history |-> <<>>]
NoAdvancedCache == [cache |-> <<>>, accessOrder |-> <<>>]
\* initial: the slot the hook was mounted over; issued / applied: what was
\* handed to a queue and what came out of it; undoable: the states that
\* preceded the setState calls not yet undone, before and after the last call
\* recent: the keys of the cache, the least recently set or read first;
\* recentBefore: the same before the last call; evicted: the keys the last
\* call removed to make room
NoTrace == [initial |-> NoStorage, issued |-> <<>>, applied |-> <<>>,
            undoable |-> <<>>, undoableBefore |-> <<>>,
            recent |-> <<>>, recentBefore |-> <<>>, evicted |-> {}]

CompIdle ==
  /\ storage = NoStorage
  /\ effects = <<>>
  /\ optimized = NoOptimized
  /\ batchProcessor = NoBatchProcessor
  /\ stateManager = NoStateManager
  /\ advancedCache = NoAdvancedCache
  /\ trace = NoTrace

(***************************************************************************)
(* The hook as the application drives it: React re-renders after every     *)
(* event handler, so each call sees the closure of the state it left.      *)
(***************************************************************************)
Init ==
  /\ tasks = <<>> /\ undoStack = <<>> /\ redoStack = <<>>
  /\ cTasks = <<>> /\ cUndo = <<>> /\ cRedo = <<>>
  /\ now = 1 /\ nextId = 1 /\ ops = 0
  /\ lastOp = "init" /\ lastArg = 0 /\ lastInput = NoInput /\ ret = "ok"
  /\ old = [tasks |-> <<>>, undoStack |-> <<>>, redoStack |-> <<>>, now |-> 1]
  /\ prevOp = [op |-> "init", arg |-> 0, ret |-> "ok",
               old |-> [tasks |-> <<>>, undoStack |-> <<>>,
                        redoStack |-> <<>>, now |-> 1],
               before |-> "init", beforeRet |-> "ok"]
  /\ gUndo = <<>> /\ mutLog = <<>> /\ undoRun = 0
  /\ CompIdle

Rerender ==
  /\ cTasks' = tasks'
  /\ cUndo' = undoStack'
  /\ cRedo' = redoStack'

CallWith(taskData, handler) ==
  /\ ops < MaxOps
  /\ UNCHANGED compVars
  /\ handler
  /\ Rerender
  /\ now' = now
  /\ ops' = ops + 1
  /\ lastInput' = taskData

Call(handler) == CallWith(NoInput, handler)

CallAddTask ==
  \E taskData \in SessionInputs :
     Len(tasks) < MaxTasks /\ CallWith(taskData, addTask(taskData))
CallUpdateTask ==
  \E taskId \in IdArgs, updates \in Patches :
     CallWith(updates, updateTask(taskId, updates))
CallDeleteTask == \E taskId \in IdArgs : Call(deleteTask(taskId))
CallToggleTask == \E taskId \in IdArgs : Call(toggleTask(taskId))
CallBulkUpdate ==
  \E taskIds \in IdSetArgs, updates \in BulkPatches :
     CallWith([taskIds |-> taskIds, updates |-> updates],
              bulkUpdate(taskIds, updates))
CallBulkDelete ==
  \E taskIds \in IdSetArgsMixed :
     CallWith([taskIds |-> taskIds], bulkDelete(taskIds))
\* every caller leaves `validate` at its default
ValidateArgs == {TRUE}

CallImportTasks ==
  \E file \in ImportFiles, validate \in ValidateArgs :
   \E merge \in MergeArgs(file) :
     /\ Len(file.text) + (IF merge THEN Len(tasks) ELSE 0) <= MaxTasks
     /\ CallWith(file, importTasks(file, merge, validate))
CallClearTasks == Call(clearTasks)
CallUndo == Call(undo)
CallRedo == Call(redo)

\* time passes between two calls
Tick ==
  /\ now < MaxTime
  /\ 0 < ops /\ ops < MaxOps
  /\ now' = now + 1
  /\ UNCHANGED <<tasks, undoStack, redoStack, cTasks, cUndo, cRedo, nextId,
                 ops, lastOp, lastArg, lastInput, ret, old, prevOp, gUndo,
                 mutLog, undoRun>>
  /\ UNCHANGED compVars

Next ==
  \/ CallAddTask
  \/ CallUpdateTask
  \/ CallDeleteTask
  \/ CallToggleTask
  \/ CallBulkUpdate
  \/ CallBulkDelete
  \/ CallImportTasks
  \/ CallClearTasks
  \/ CallUndo
  \/ CallRedo
  \/ Tick

Spec == Init /\ [][Next]_vars

(***************************************************************************)
(* The add form alone, with every kind of input                            *)
(***************************************************************************)
FormAddTask ==
  \E taskData \in AddInputs :
     Len(tasks) < MaxTasks /\ CallWith(taskData, addTask(taskData))
FormToggleTask == CallToggleTask
FormTick == Tick

NextForm ==
  \/ FormAddTask
  \/ FormToggleTask
  \/ FormTick

SpecForm == Init /\ [][NextForm]_vars

(***************************************************************************)
(* A long session with few inputs: the user adds tasks until MaxTasks are  *)
(* on screen, deletes the oldest, and walks the history with undo / redo.  *)
(* `ops` counts the mutations only.                                        *)
(***************************************************************************)
HistCall(handler) ==
  /\ handler
  /\ UNCHANGED compVars
  /\ Rerender
  /\ now' = now
  /\ lastInput' = NoInput

HistAddTask ==
  /\ ops < MaxHistOps
  /\ Len(tasks) < MaxTasks
  /\ HistCall(addTask(BaseInput))
  /\ ops' = ops + 1
HistDeleteTask ==
  /\ ops < MaxHistOps
  /\ Len(tasks) >= MaxTasks
  /\ HistCall(deleteTask(cTasks[1].id))
  /\ ops' = ops + 1
HistUndo == HistCall(undo) /\ ops' = ops
HistRedo == HistCall(redo) /\ ops' = ops

NextHist ==
  \/ HistAddTask
  \/ HistDeleteTask
  \/ HistUndo
  \/ HistRedo

SpecHist == Init /\ [][NextHist]_vars

(***************************************************************************)
(* The utility functions and replaceTasks applied once to a collection     *)
(* that holds any mix of completed, pending and overdue tasks of every     *)
(* priority.                                                               *)
(***************************************************************************)
\* completed, dueDate, priority of the tasks of such a collection
UtilKinds ==
  {<<FALSE, Null, "high">>, <<TRUE, Null, "medium">>, <<FALSE, 1, "low">>,
   <<TRUE, 1, "high">>, <<FALSE, 1, "medium">>, <<FALSE, Null, "urgent">>}

UtilTask(id, kind) ==
  [id |-> id, text |-> Text(1, 0), completed |-> kind[1],
   completedAt |-> IF kind[1] THEN 1 ELSE Null, createdAt |-> 1,
   updatedAt |-> 1, category |-> "work", priority |-> kind[3],
   dueDate |-> kind[2], estimatedTime |-> Null, actualTime |-> Null,
   order |-> id]

UtilCollections ==
  UNION {{[i \in 1..n |-> UtilTask(i, kinds[i])] : kinds \in [1..n -> UtilKinds]} :
           n \in 0..MaxUtilTasks}

\* entries of an array given to replaceTasks: a completed task, a task
\* without id, creation time and order whose text has surrounding blanks, a
\* task whose due date is 1, and two invalid ones (priority, blank text)
ReplaceEntries ==
  {FileTask(1, TRUE, 1, "high"),
   [FileTask(Null, FALSE, Null, "") EXCEPT
      !.text = Text(1, 1), !.createdAt = Null, !.order = Null],
   [FileTask(2, FALSE, Null, "low") EXCEPT !.dueDate = 1],
   FileTask(2, FALSE, Null, "urgent"),
   [FileTask(1, FALSE, Null, "low") EXCEPT !.text = Text(0, 1)]}

ReplaceInputs ==
  {[isArray |-> FALSE, entries |-> <<>>]}
  \cup {[isArray |-> TRUE, entries |-> entries] :
          entries \in UNION {[1..n -> ReplaceEntries] : n \in 0..MaxBatch}}

InitUtil ==
  /\ tasks \in UtilCollections
  /\ cTasks = tasks
  /\ undoStack = <<>> /\ redoStack = <<>> /\ cUndo = <<>> /\ cRedo = <<>>
  /\ now \in Times /\ nextId = MaxUtilTasks + 1 /\ ops = 0
  /\ lastOp = "init" /\ lastArg = 0 /\ lastInput = NoInput /\ ret = "ok"
  /\ old = [tasks |-> <<>>, undoStack |-> <<>>, redoStack |-> <<>>, now |-> 1]
  /\ prevOp = [op |-> "init", arg |-> 0, ret |-> "ok",
               old |-> [tasks |-> <<>>, undoStack |-> <<>>,
                        redoStack |-> <<>>, now |-> 1],
               before |-> "init", beforeRet |-> "ok"]
  /\ gUndo = <<>> /\ mutLog = <<>> /\ undoRun = 0
  /\ CompIdle

\* a function is applied to the collection; `ret` receives its result
Apply(op, input, result) ==
  /\ ops = 0
  /\ ops' = 1
  /\ Record(op, 0, result)
  /\ lastInput' = input
  /\ UNCHANGED <<tasks, undoStack, redoStack, cTasks, cUndo, cRedo, now,
                 nextId, gUndo, mutLog, undoRun>>
  /\ UNCHANGED compVars

UtilFilterTasks ==
  \E filter \in {"all", "completed", "pending", "overdue"} :
     Apply("filterTasks", filter, filterTasks(tasks, filter, now))
UtilSortTasks ==
  Apply("sortTasks", "priority", sortTasks(tasks, "priority"))
UtilTaskStats ==
  Apply("taskStats", 0, taskStats(tasks, now))
UtilProductivityScore ==
  Apply("calculateProductivityScore", 0, calculateProductivityScore(tasks, now))
\* replaceTasks on an empty or one-task collection
UtilReplaceTasks ==
  \E newTasks \in ReplaceInputs :
     /\ ops = 0
     /\ Len(tasks) <= 1
     /\ ops' = 1
     /\ tasks' = replaceTasks(newTasks, now, nextId)
     /\ cTasks' = tasks'
     /\ nextId' = nextId + Len(newTasks.entries)
     /\ Record("replaceTasks", 0, "ok")
     /\ lastInput' = newTasks
     /\ UNCHANGED <<undoStack, redoStack, cUndo, cRedo, now, gUndo, mutLog,
                    undoRun>>
     /\ UNCHANGED compVars

\* the positions a drag and drop hands over: those of the list on screen
IndexPairs(ts) == (0..(Len(ts) - 1)) \X (0..(Len(ts) - 1))

UtilMoveTask ==
  \E pair \in IndexPairs(tasks) :
     Apply("moveTask", [from |-> pair[1], to |-> pair[2]],
           useTasksMoveTask(tasks, pair[1], pair[2], now))
UtilReorderTasks ==
  \E pair \in IndexPairs(tasks) :
     Apply("reorderTasks", [from |-> pair[1], to |-> pair[2]],
           reorderTasks(tasks, pair[1], pair[2], now))

NextUtil ==
  \/ UtilMoveTask
  \/ UtilReorderTasks
  \/ UtilFilterTasks
  \/ UtilSortTasks
  \/ UtilTaskStats
  \/ UtilProductivityScore
  \/ UtilReplaceTasks

SpecUtil == InitUtil /\ [][NextUtil]_vars

(***************************************************************************)
(* Calls issued back-to-back: an event handler (or a loop such as          *)
(* TaskBatchProcessor.batchCreateTasks) calls several callbacks before     *)
(* React renders again, so every one of them runs with the closure of the  *)
(* same render.  React renders once the handler has returned.              *)
(***************************************************************************)
BurstCall(taskData, handler) ==
  /\ ops < MaxOps
  /\ handler
  /\ UNCHANGED closVars
  /\ UNCHANGED compVars
  /\ now' = now
  /\ ops' = ops + 1
  /\ lastInput' = taskData

BurstAddTask ==
  \E taskData \in SessionInputs :
     Len(tasks) < MaxTasks /\ BurstCall(taskData, addTask(taskData))
BurstBulkUpdate ==
  \E taskIds \in IdSetArgs, updates \in BulkPatches :
     BurstCall([taskIds |-> taskIds, updates |-> updates],
               bulkUpdate(taskIds, updates))
BurstDeleteTask ==
  \E taskId \in IdArgs : BurstCall(NoInput, deleteTask(taskId))
\* the render React schedules when a setter was called
BurstRender ==
  /\ <<cTasks, cUndo, cRedo>> # <<tasks, undoStack, redoStack>>
  /\ cTasks' = tasks /\ cUndo' = undoStack /\ cRedo' = redoStack
  /\ UNCHANGED <<tasks, undoStack, redoStack, now, nextId, ops, lastOp,
                 lastArg, lastInput, ret, old, prevOp, gUndo, mutLog, undoRun>>
  /\ UNCHANGED compVars

NextBurst ==
  \/ BurstAddTask
  \/ BurstBulkUpdate
  \/ BurstDeleteTask
  \/ BurstRender

SpecBurst == Init /\ [][NextBurst]_vars

(***************************************************************************)
(* useAdvancedTasks and localStorage: the hook is mounted over a slot that *)
(* is absent, malformed, or holds an exported collection.  The first       *)
(* render sees tasks = []; React then runs the two effects in the order of *)
(* their declaration, and after every later render whose `tasks` differs   *)
(* from that of the render before, the save effect alone.                  *)
(***************************************************************************)
\* localStorage.setItem('tasks', JSON.stringify(ts))
Stored(ts) == [present |-> TRUE, parses |-> TRUE, isArray |-> TRUE,
               text |-> JsonStringify(ts)]

PersistedCollections ==
  {<<>>,
   <<FileTask(1, FALSE, Null, "low")>>,
   <<FileTask(1, TRUE, 1, "high"), FileTask(2, FALSE, Null, "low")>>}
\* absent, not JSON, JSON that is no array, or a collection
PersistedSlots ==
  {NoStorage,
   [present |-> TRUE, parses |-> FALSE, isArray |-> FALSE, text |-> <<>>],
   [present |-> TRUE, parses |-> TRUE,  isArray |-> FALSE, text |-> <<>>]}
  \cup {Stored(ts) : ts \in PersistedCollections}

InitPersist ==
  /\ tasks = <<>> /\ undoStack = <<>> /\ redoStack = <<>>
  /\ cTasks = <<>> /\ cUndo = <<>> /\ cRedo = <<>>
  /\ now = 1 /\ nextId = MaxTasks + 1 /\ ops = 0
  /\ lastOp = "init" /\ lastArg = 0 /\ lastInput = NoInput /\ ret = "ok"
  /\ old = [tasks |-> <<>>, undoStack |-> <<>>, redoStack |-> <<>>, now |-> 1]
  /\ prevOp = [op |-> "init", arg |-> 0, ret |-> "ok",
               old |-> [tasks |-> <<>>, undoStack |-> <<>>,
                        redoStack |-> <<>>, now |-> 1],
               before |-> "init", beforeRet |-> "ok"]
  /\ gUndo = <<>> /\ mutLog = <<>> /\ undoRun = 0
  /\ storage \in PersistedSlots
  /\ effects = <<"load", "save">>
  /\ optimized = NoOptimized
  /\ batchProcessor = NoBatchProcessor
  /\ stateManager = NoStateManager
  /\ advancedCache = NoAdvancedCache
  /\ trace = [NoTrace EXCEPT !.initial = storage]

\* the load effect: what it hands to setTasks, or `tasks` when it sets nothing
LoadedTasks(slot, current) ==
  IF ~slot.present THEN current          \* if (savedTasks) fails
  ELSE IF ~slot.parses THEN current      \* JSON.parse throws: catch, setError
  ELSE IF slot.isArray THEN JsonParse(slot.text) ELSE <<>>

PersistFrame ==
  UNCHANGED <<undoStack, redoStack, now, nextId, ops, lastOp, lastArg,
              lastInput, ret, old, prevOp, gUndo, mutLog, undoRun, optimized,
              batchProcessor, stateManager, advancedCache, trace>>

LoadEffect ==
  /\ effects # <<>> /\ Head(effects) = "load"
  /\ effects' = Tail(effects)
  /\ tasks' = LoadedTasks(storage, tasks)
  /\ UNCHANGED <<storage, cTasks, cUndo, cRedo>>
  /\ PersistFrame

\* the save effect writes the `tasks` of the render it belongs to
SaveEffect ==
  /\ effects # <<>> /\ Head(effects) = "save"
  /\ effects' = Tail(effects)
  /\ storage' = Stored(cTasks)
  /\ UNCHANGED <<tasks, cTasks, cUndo, cRedo>>
  /\ PersistFrame

\* React renders again once the effects of the last render have run
PersistRender ==
  /\ effects = <<>>
  /\ <<cTasks, cUndo, cRedo>> # <<tasks, undoStack, redoStack>>
  /\ effects' = IF cTasks # tasks THEN <<"save">> ELSE <<>>
  /\ cTasks' = tasks /\ cUndo' = undoStack /\ cRedo' = redoStack
  /\ UNCHANGED <<tasks, storage>>
  /\ PersistFrame

\* the user acts on what is on screen
PersistCall(handler) ==
  /\ effects = <<>>
  /\ <<cTasks, cUndo, cRedo>> = <<tasks, undoStack, redoStack>>
  /\ ops < MaxOps
  /\ handler
  /\ ops' = ops + 1
  /\ now' = now
  /\ lastInput' = NoInput
  /\ UNCHANGED <<cTasks, cUndo, cRedo>>
  /\ UNCHANGED compVars

PersistAddTask ==
  Len(tasks) < MaxTasks /\ PersistCall(addTask(BaseInput))
PersistToggleTask == \E taskId \in Ids(cTasks) : PersistCall(toggleTask(taskId))
PersistDeleteTask == \E taskId \in Ids(cTasks) : PersistCall(deleteTask(taskId))

NextPersist ==
  \/ LoadEffect
  \/ SaveEffect
  \/ PersistRender
  \/ PersistAddTask
  \/ PersistToggleTask
  \/ PersistDeleteTask

SpecPersist == InitPersist /\ [][NextPersist]_vars

\* React runs every pending effect and every pending render
SpecPersistFair ==
  /\ SpecPersist
  /\ WF_vars(LoadEffect) /\ WF_vars(SaveEffect) /\ WF_vars(PersistRender)

(***************************************************************************)
(* calculateStreakData applied once to a history of completions: a task    *)
(* completed at noon of each day of a set of days, a second one on the     *)
(* earliest of them, and a pending task; today is any day.                 *)
(***************************************************************************)
Noon(d) == Midnight(d) + 12
StreakTask(id, d) ==
  [UtilTask(id, <<TRUE, Null, "medium">>) EXCEPT !.completedAt = Noon(d)]

StreakCollection(days, twice) ==
  LET dates == SortedDescending(days)
      n     == Len(dates)
  IN [i \in 1..n |-> StreakTask(i, dates[n + 1 - i])]
     \o (IF twice /\ n > 0 THEN <<StreakTask(n + 1, dates[n])>> ELSE <<>>)
     \o <<UtilTask(n + 2, <<FALSE, Null, "low">>)>>

InitStreak ==
  /\ \E days \in SUBSET (1..MaxDays), twice \in BOOLEAN :
        tasks = StreakCollection(days, twice)
  /\ cTasks = tasks
  /\ undoStack = <<>> /\ redoStack = <<>> /\ cUndo = <<>> /\ cRedo = <<>>
  /\ now \in {Noon(d) : d \in 1..MaxDays}
  /\ nextId = MaxDays + 3 /\ ops = 0
  /\ lastOp = "init" /\ lastArg = 0 /\ lastInput = NoInput /\ ret = "ok"
  /\ old = [tasks |-> <<>>, undoStack |-> <<>>, redoStack |-> <<>>, now |-> 1]
  /\ prevOp = [op |-> "init", arg |-> 0, ret |-> "ok",
               old |-> [tasks |-> <<>>, undoStack |-> <<>>,
                        redoStack |-> <<>>, now |-> 1],
               before |-> "init", beforeRet |-> "ok"]
  /\ gUndo = <<>> /\ mutLog = <<>> /\ undoRun = 0
  /\ CompIdle

StreakCalculate ==
  Apply("calculateStreakData", 0, calculateStreakData(tasks, now))

NextStreak ==
  \/ StreakCalculate

SpecStreak == InitStreak /\ [][NextStreak]_vars

(***************************************************************************)
(* useOptimizedTasks driven by a user: callbacks, the batch timer, unmount *)
(***************************************************************************)
InitOptimized ==
  /\ tasks = <<FileTask(1, FALSE, Null, "low")>>
  /\ cTasks = tasks
  /\ undoStack = <<>> /\ redoStack = <<>> /\ cUndo = <<>> /\ cRedo = <<>>
  /\ now = 1 /\ nextId = 2 /\ ops = 0
  /\ lastOp = "init" /\ lastArg = 0 /\ lastInput = NoInput /\ ret = "ok"
  /\ old = [tasks |-> <<>>, undoStack |-> <<>>, redoStack |-> <<>>, now |-> 1]
  /\ prevOp = [op |-> "init", arg |-> 0, ret |-> "ok",
               old |-> [tasks |-> <<>>, undoStack |-> <<>>,
                        redoStack |-> <<>>, now |-> 1],
               before |-> "init", beforeRet |-> "ok"]
  /\ gUndo = <<>> /\ mutLog = <<>> /\ undoRun = 0
  /\ storage = NoStorage
  /\ effects = <<>>
  /\ optimized = [NoOptimized EXCEPT !.mounted = TRUE]
  /\ batchProcessor = NoBatchProcessor
  /\ stateManager = NoStateManager
  /\ advancedCache = NoAdvancedCache
  /\ trace = NoTrace

OptimizedFrame ==
  UNCHANGED <<undoStack, redoStack, cUndo, cRedo, now, lastOp, lastArg,
              lastInput, ret, old, prevOp, gUndo, mutLog, undoRun, storage,
              effects, batchProcessor, stateManager, advancedCache>>

\* a callback of the mounted hook hands its operation to batchOperation
OptimizedCall(operation) ==
  /\ optimized.mounted
  /\ ops < MaxOps
  /\ batchOperation(operation)
  /\ ops' = ops + 1
  /\ UNCHANGED cTasks
  /\ OptimizedFrame

OptimizedAddTask ==
  OptimizedCall([kind |-> "add", task |-> NewTask(BaseInput, nextId, now, now)])
OptimizedUpdateTask ==
  \E id \in Ids(cTasks) :
     OptimizedCall([kind |-> "update", id |-> id,
                    updates |-> [priority |-> "high"]])
OptimizedDeleteTask ==
  \E id \in Ids(cTasks) : OptimizedCall([kind |-> "delete", id |-> id])
OptimizedToggleTask ==
  \E id \in Ids(cTasks) : OptimizedCall([kind |-> "toggle", id |-> id])
OptimizedBulkUpdate ==
  OptimizedCall([kind |-> "bulkUpdate", taskIds |-> Ids(cTasks),
                 updates |-> [completed |-> TRUE]])
\* a drag of the first task on screen to the end of the list, while no
\* delete is waiting in the queue
OptimizedReorderTasks ==
  /\ cTasks # <<>>
  /\ \A i \in DOMAIN optimized.operationQueue :
        optimized.operationQueue[i].kind # "delete"
  /\ OptimizedCall([kind |-> "reorder", startIndex |-> 0,
                    endIndex |-> Len(cTasks) - 1])
\* the 16 ms have passed; React renders the new collection
OptimizedTimer ==
  /\ batchTimeoutFires
  /\ cTasks' = tasks'
  /\ UNCHANGED ops
  /\ OptimizedFrame
OptimizedUnmount ==
  /\ unmountCleanup
  /\ UNCHANGED <<cTasks, ops>>
  /\ OptimizedFrame

NextOptimized ==
  \/ OptimizedAddTask
  \/ OptimizedUpdateTask
  \/ OptimizedDeleteTask
  \/ OptimizedToggleTask
  \/ OptimizedBulkUpdate
  \/ OptimizedReorderTasks
  \/ OptimizedTimer
  \/ OptimizedUnmount

SpecOptimized == InitOptimized /\ [][NextOptimized]_vars

\* a timer that is not cleared fires
SpecOptimizedFair == SpecOptimized /\ WF_vars(OptimizedTimer)

(***************************************************************************)
(* A BatchProcessor under add() calls, timer expiries, batch completion    *)
(* and the passing of time.  trace.issued lists the items given to add(),  *)
(* trace.applied the items handed to processBatchItems.                    *)
(***************************************************************************)
InitBatch ==
  /\ tasks = <<>> /\ undoStack = <<>> /\ redoStack = <<>>
  /\ cTasks = <<>> /\ cUndo = <<>> /\ cRedo = <<>>
  /\ now = 1 /\ nextId = 1 /\ ops = 0
  /\ lastOp = "init" /\ lastArg = 0 /\ lastInput = NoInput /\ ret = "ok"
  /\ old = [tasks |-> <<>>, undoStack |-> <<>>, redoStack |-> <<>>, now |-> 1]
  /\ prevOp = [op |-> "init", arg |-> 0, ret |-> "ok",
               old |-> [tasks |-> <<>>, undoStack |-> <<>>,
                        redoStack |-> <<>>, now |-> 1],
               before |-> "init", beforeRet |-> "ok"]
  /\ gUndo = <<>> /\ mutLog = <<>> /\ undoRun = 0
  /\ CompIdle

BatchFrame ==
  UNCHANGED <<tasks, undoStack, redoStack, cTasks, cUndo, cRedo, lastOp,
              lastArg, lastInput, ret, old, prevOp, gUndo, mutLog, undoRun,
              storage, effects, optimized, stateManager, advancedCache>>

\* the batches processBatchItems was called with during a step
Handed(before, after) ==
  IF Len(after.inflight) > Len(before.inflight)
  THEN after.inflight[Len(after.inflight)] ELSE <<>>

BatchAdd ==
  /\ ops < MaxItems
  /\ batchProcessor' = add(batchProcessor, nextId, now)
  /\ trace' = [trace EXCEPT
                 !.issued  = Append(@, nextId),
                 !.applied = @ \o Handed(batchProcessor, batchProcessor')]
  /\ nextId' = nextId + 1
  /\ ops' = ops + 1
  /\ UNCHANGED now
  /\ BatchFrame
BatchTimer ==
  \E t \in batchProcessor.timers :
     /\ batchProcessor' = timerExpires(batchProcessor, t)
     /\ trace' = [trace EXCEPT
                    !.applied = @ \o Handed(batchProcessor, batchProcessor')]
     /\ UNCHANGED <<nextId, ops, now>>
     /\ BatchFrame
BatchSettles ==
  \E i \in DOMAIN batchProcessor.inflight :
     /\ batchProcessor' = finishBatch(batchProcessor, i, now)
     /\ UNCHANGED <<trace, nextId, ops, now>>
     /\ BatchFrame
BatchTick ==
  /\ now < MaxTime
  /\ now' = now + 1
  /\ UNCHANGED <<batchProcessor, trace, nextId, ops>>
  /\ BatchFrame

NextBatch ==
  \/ BatchAdd
  \/ BatchTimer
  \/ BatchSettles
  \/ BatchTick

SpecBatch == InitBatch /\ [][NextBatch]_vars

\* a timer that stays pending expires, and a batch in flight settles
SpecBatchFair ==
  SpecBatch /\ WF_vars(BatchTimer) /\ WF_vars(BatchSettles)

(***************************************************************************)
(* A TaskBatchProcessor over a store of one task.  trace.issued lists the  *)
(* operations given to add(), trace.applied the calls made on the store.   *)
(***************************************************************************)
InitTaskBatch ==
  /\ tasks = <<FileTask(1, FALSE, Null, "low")>>
  /\ cTasks = tasks
  /\ undoStack = <<>> /\ redoStack = <<>> /\ cUndo = <<>> /\ cRedo = <<>>
  /\ now = 1 /\ nextId = 2 /\ ops = 0
  /\ lastOp = "init" /\ lastArg = 0 /\ lastInput = NoInput /\ ret = "ok"
  /\ old = [tasks |-> <<>>, undoStack |-> <<>>, redoStack |-> <<>>, now |-> 1]
  /\ prevOp = [op |-> "init", arg |-> 0, ret |-> "ok",
               old |-> [tasks |-> <<>>, undoStack |-> <<>>,
                        redoStack |-> <<>>, now |-> 1],
               before |-> "init", beforeRet |-> "ok"]
  /\ gUndo = <<>> /\ mutLog = <<>> /\ undoRun = 0
  /\ CompIdle

TaskBatchFrame ==
  UNCHANGED <<undoStack, redoStack, cUndo, cRedo, now, lastOp, lastArg,
              lastInput, ret, old, prevOp, gUndo, mutLog, undoRun, storage,
              effects, optimized, stateManager, advancedCache>>

\* the store and the log once the batches handed over in a step are done
TaskBatchHandOver(before, after, issued) ==
  LET done == processBatchItems(Handed(before, after), tasks, now)
  IN /\ tasks' = done.tasks
     /\ cTasks' = done.tasks
     /\ trace' = [trace EXCEPT !.issued  = @ \o issued,
                               !.applied = @ \o done.calls]

\* the operations the component queues: a new task, a change of priority,
\* a removal, of a task on screen or queued for creation
TaskOperations ==
     {[type |-> "CREATE", id |-> nextId, data |-> BaseInput]}
  \cup {[type |-> "UPDATE", id |-> id, data |-> [priority |-> "high"]] :
          id \in Ids(cTasks)}
  \cup {[type |-> "DELETE", id |-> id, data |-> NoInput] : id \in Ids(cTasks)}

TaskBatchAdd ==
  \E op \in TaskOperations :
     /\ ops <= batchSize    \* one full batch and one operation more
     /\ batchProcessor' = add(batchProcessor, op, now)
     /\ TaskBatchHandOver(batchProcessor, batchProcessor', <<op>>)
     /\ nextId' = IF op.type = "CREATE" THEN nextId + 1 ELSE nextId
     /\ ops' = ops + 1
     /\ TaskBatchFrame
TaskBatchTimer ==
  \E t \in batchProcessor.timers :
     /\ batchProcessor' = timerExpires(batchProcessor, t)
     /\ TaskBatchHandOver(batchProcessor, batchProcessor', <<>>)
     /\ UNCHANGED <<nextId, ops>>
     /\ TaskBatchFrame
TaskBatchSettles ==
  \E i \in DOMAIN batchProcessor.inflight :
     /\ batchProcessor' = finishBatch(batchProcessor, i, now)
     /\ UNCHANGED <<tasks, cTasks, trace, nextId, ops>>
     /\ TaskBatchFrame

NextTaskBatch ==
  \/ TaskBatchAdd
  \/ TaskBatchTimer
  \/ TaskBatchSettles

SpecTaskBatch == InitTaskBatch /\ [][NextTaskBatch]_vars

(***************************************************************************)
(* A StateManager built as EnhancedTaskManager builds it, under setState   *)
(* and undo calls                                                          *)
(***************************************************************************)
InitialState == [filter |-> "all", sortBy |-> "createdAt", viewMode |-> "list"]
StateUpdates ==
     {[filter |-> f] : f \in {"all", "completed", "pending"}}
  \cup {[viewMode |-> v] : v \in {"list", "grid"}}
  \cup {[filter |-> "all", sortBy |-> "priority"]}

InitState ==
  /\ tasks = <<>> /\ undoStack = <<>> /\ redoStack = <<>>
  /\ cTasks = <<>> /\ cUndo = <<>> /\ cRedo = <<>>
  /\ now = 1 /\ nextId = 1 /\ ops = 0
  /\ lastOp = "init" /\ lastArg = 0 /\ lastInput = NoInput /\ ret = "ok"
  /\ old = [tasks |-> <<>>, undoStack |-> <<>>, redoStack |-> <<>>, now |-> 1]
  /\ prevOp = [op |-> "init", arg |-> 0, ret |-> "ok",
               old |-> [tasks |-> <<>>, undoStack |-> <<>>,
                        redoStack |-> <<>>, now |-> 1],
               before |-> "init", beforeRet |-> "ok"]
  /\ gUndo = <<>> /\ mutLog = <<>> /\ undoRun = 0
  /\ storage = NoStorage
  /\ effects = <<>>
  /\ optimized = NoOptimized
  /\ batchProcessor = NoBatchProcessor
  /\ stateManager = NewStateManager(InitialState)
  /\ advancedCache = NoAdvancedCache
  /\ trace = NoTrace

StateFrame ==
  UNCHANGED <<tasks, undoStack, redoStack, cTasks, cUndo, cRedo, now, nextId,
              lastInput, gUndo, mutLog, undoRun, storage, effects, optimized,
              batchProcessor, advancedCache>>

StateSetState ==
  \E updates \in StateUpdates :
     /\ ops < MaxOps + 1
     /\ stateManager' = setState(stateManager, updates, now)
     /\ trace' = [trace EXCEPT
                    !.undoableBefore = trace.undoable,
                    !.undoable = Append(trace.undoable, stateManager.state)]
     /\ Record("setState", 0, "ok")
     /\ ops' = ops + 1
     /\ StateFrame
StateUndo ==
  /\ ops < MaxOps + 1
  /\ stateManager' = undoState(stateManager).sm
  /\ trace' = [trace EXCEPT
                 !.undoableBefore = trace.undoable,
                 !.undoable = IF @ = <<>> THEN @ ELSE DropLast(@)]
  /\ Record("undo", 0, IF undoState(stateManager).returned
                        THEN "true" ELSE "false")
  /\ ops' = ops + 1
  /\ StateFrame

NextStateManager ==
  \/ StateSetState
  \/ StateUndo

SpecState == InitState /\ [][NextStateManager]_vars

(***************************************************************************)
(* An AdvancedCache of maxSize entries under set, get and delete calls     *)
(* while time passes                                                       *)
(***************************************************************************)
CacheKeys == {"a", "b", "c"}
\* no expiry (ttl 0) or expiry one tick after the set
CacheTtls == {0, 1}

InitCache == Init

CacheFrame ==
  UNCHANGED <<tasks, undoStack, redoStack, cTasks, cUndo, cRedo, nextId,
              lastInput, gUndo, mutLog, undoRun, storage, effects, optimized,
              batchProcessor, stateManager>>

\* `key` has just been set or read
Touched(recent, key) == Append(Filter(recent, LAMBDA k : k # key), key)
\* the keys of `recent` that are still in the cache
StillCached(recent, ac) == Filter(recent, LAMBDA k : k \in MapKeys(ac.cache))

CacheCall(op, key, result, ac, touched) ==
  /\ ops < MaxOps + 1
  /\ advancedCache' = ac
  /\ trace' = [trace EXCEPT
                 !.recentBefore = trace.recent,
                 !.recent = StillCached(IF touched THEN Touched(@, key) ELSE @,
                                        ac),
                 !.evicted = IF op = "set" THEN OldestKeys(advancedCache, key)
                             ELSE {}]
  /\ Record(op, key, result)
  /\ ops' = ops + 1
  /\ now' = now
  /\ CacheFrame

CacheSet ==
  \E key \in CacheKeys, ttl \in CacheTtls :
     CacheCall("set", key, "ok", cacheSet(advancedCache, key, key, ttl, now),
               TRUE)
CacheGet ==
  \E key \in CacheKeys :
     CacheCall("get", key, cacheGet(advancedCache, key, now).returned,
               cacheGet(advancedCache, key, now).ac,
               cacheGet(advancedCache, key, now).returned # "undefined")
CacheDelete ==
  \E key \in CacheKeys :
     CacheCall("delete", key, "ok", cacheDelete(advancedCache, key), FALSE)
CacheTick ==
  /\ now < MaxTime + 1
  /\ 0 < ops
  /\ now' = now + 1
  /\ UNCHANGED <<advancedCache, trace, ops, lastOp, lastArg, ret, old, prevOp>>
  /\ CacheFrame

NextCache ==
  \/ CacheSet
  \/ CacheGet
  \/ CacheDelete
  \/ CacheTick

SpecCache == InitCache /\ [][NextCache]_vars

(***************************************************************************)
(* Properties                                                              *)
(***************************************************************************)
Mutations == {"addTask", "updateTask", "deleteTask", "toggleTask",
              "bulkUpdate", "bulkDelete", "importTasks", "clearTasks"}
Mutated   == lastOp \in Mutations /\ ret = "ok"
HistMax   == HistKeep + 1

\* C1: undo() right after a successful mutation succeeds and makes the
\* collection equal to the one before the mutation; redo() right after that
\* undo() succeeds and makes it equal to the one after the mutation.
C1_UndoRedoRoundTrip ==
  /\ (lastOp = "undo" /\ prevOp.op \in Mutations /\ prevOp.ret = "ok")
        => (ret = "true" /\ tasks = prevOp.old.tasks)
  /\ (/\ lastOp = "redo" /\ prevOp.op = "undo"
      /\ prevOp.before \in Mutations /\ prevOp.beforeRet = "ok")
        => (ret = "true" /\ tasks = prevOp.old.tasks)

\* a mutation that changed the collection has been undone and redone
C1_Witness ==
  /\ lastOp = "redo" /\ ret = "true" /\ prevOp.op = "undo"
  /\ prevOp.before \in Mutations /\ prevOp.beforeRet = "ok"
  /\ tasks # old.tasks
  /\ tasks = prevOp.old.tasks

\* C2: a successful mutation leaves the collection as it was just before it
\* on top of the undo stack, and the redo stack empty.
C2_MutationPushesPriorState ==
  Mutated => /\ undoStack # <<>>
             /\ undoStack[Len(undoStack)] = old.tasks
             /\ redoStack = <<>>

\* a mutation found the redo stack non-empty and changed the collection
C2_Witness ==
  /\ Mutated
  /\ old.redoStack # <<>>
  /\ tasks # old.tasks
  /\ Len(undoStack) = Len(old.undoStack) + 1

\* C3: both stacks hold at most 10 snapshots; the snapshots the undo stack
\* holds are the most recent ones of the uncapped history (the oldest is the
\* one discarded), so k undos in a row after a mutation reach the
\* collection k mutations back, for k up to 10.
C3_StacksCappedOldestEvicted ==
  /\ Len(undoStack) <= HistMax
  /\ Len(redoStack) <= HistMax
  /\ Len(undoStack) <= Len(gUndo)
  /\ undoStack = SliceLast(gUndo, Len(undoStack))
  /\ (Mutated /\ Len(old.undoStack) = HistMax)
        => undoStack = Tail(old.undoStack) \o <<old.tasks>>
  /\ undoRun \in 0..HistMax
  /\ (undoRun >= 1 /\ undoRun <= Len(mutLog))
        => tasks = mutLog[Len(mutLog) - undoRun + 1]

\* more than 10 mutations, then 10 undos in a row
C3_Witness ==
  /\ Len(mutLog) > HistMax
  /\ undoRun = HistMax
  /\ lastOp = "undo" /\ ret = "true"
  /\ undoStack = <<>>
  /\ Len(redoStack) = HistMax
  /\ tasks = mutLog[Len(mutLog) - HistMax + 1]

\* C4: undo() on an empty undo stack returns false and changes nothing;
\* otherwise it returns true, pops the most recent snapshot, makes it
\* current and pushes the previously current collection on the redo stack.
\* redo() is the same with the stacks exchanged.
C4_UndoRedoEffect ==
  /\ lastOp = "undo" =>
        IF old.undoStack = <<>>
        THEN /\ ret = "false"
             /\ tasks = old.tasks
             /\ undoStack = old.undoStack
             /\ redoStack = old.redoStack
        ELSE /\ ret = "true"
             /\ undoStack = SubSeq(old.undoStack, 1, Len(old.undoStack) - 1)
             /\ tasks = old.undoStack[Len(old.undoStack)]
             /\ redoStack = <<old.tasks>> \o old.redoStack
  /\ lastOp = "redo" =>
        IF old.redoStack = <<>>
        THEN /\ ret = "false"
             /\ tasks = old.tasks
             /\ undoStack = old.undoStack
             /\ redoStack = old.redoStack
        ELSE /\ ret = "true"
             /\ redoStack = Tail(old.redoStack)
             /\ tasks = Head(old.redoStack)
             /\ undoStack = old.undoStack \o <<old.tasks>>

\* a redo that found several snapshots on both stacks
C4_Witness ==
  /\ lastOp = "redo" /\ ret = "true"
  /\ Len(old.redoStack) >= 2 /\ Len(old.undoStack) >= 2
  /\ prevOp.op = "undo" /\ prevOp.ret = "true"

\* C5: no two tasks of the live collection have the same id.
C5_IdsUnique ==
  \A i, j \in 1..Len(tasks) : i # j => tasks[i].id # tasks[j].id

\* C6: every task's category and priority are members of their enums.
C6_EnumsClosed ==
  \A i \in 1..Len(tasks) :
    /\ tasks[i].category \in TASK_CATEGORIES
    /\ tasks[i].priority \in PRIORITY_LEVELS

\* C7: an operation that turns completed from false to true sets
\* completedAt, one that turns it from true to false clears completedAt, and
\* so no task is completed with a null completedAt.
C7_CompletedAtTracksCompleted ==
  /\ \A i \in 1..Len(tasks) :
        tasks[i].completed => tasks[i].completedAt # Null
  /\ (lastOp \in {"toggleTask", "updateTask", "bulkUpdate"} /\ ret = "ok")
       => \A i \in 1..Len(tasks) :
            /\ (~old.tasks[i].completed /\ tasks[i].completed)
                 => tasks[i].completedAt # Null
            /\ (old.tasks[i].completed /\ ~tasks[i].completed)
                 => tasks[i].completedAt = Null

\* two toggleTask calls in a row on the same id, which was in the collection
DoubleToggle ==
  /\ lastOp = "toggleTask" /\ prevOp.op = "toggleTask"
  /\ lastArg = prevOp.arg
  /\ lastArg \in Ids(prevOp.old.tasks)

\* C8 (as claimed): toggleTask(id) applied twice in succession returns the
\* task's completed and completedAt to the values they had before the first
\* toggle.
C8_DoubleToggleRestores ==
  (DoubleToggle /\ ret = "ok" /\ prevOp.ret = "ok") =>
    LET i == FindIndex(prevOp.old.tasks, lastArg)
    IN /\ tasks[i].completed = prevOp.old.tasks[i].completed
       /\ tasks[i].completedAt = prevOp.old.tasks[i].completedAt

\* C8 (amended): two toggleTask(id) calls in succession return completed to
\* its original value; completedAt is left alone by useTasks, and in
\* useAdvancedTasks and useOptimizedTasks it ends null for a task that
\* started not completed and at the time of the second toggle for a task
\* that started completed.  A useAdvancedTasks call rejected by validation
\* changes nothing, and once one is rejected the next one is too.
C8_DoubleToggleAmended ==
  /\ DoubleToggle =>
       LET i == FindIndex(prevOp.old.tasks, lastArg)
           o == prevOp.old.tasks[i]
       IN /\ (prevOp.ret = "ok" /\ ret = "ok") =>
                /\ tasks[i].completed = o.completed
                /\ tasks[i].completedAt = IF o.completed THEN old.now ELSE Null
                /\ (~o.completed /\ o.completedAt = Null)
                     => tasks[i].completedAt = o.completedAt
          /\ ret # "ok" => (ret = "ValidationError" /\ tasks = old.tasks)
          /\ prevOp.ret # "ok" =>
                (prevOp.ret = "ValidationError" /\ ret = "ValidationError"
                 /\ tasks = prevOp.old.tasks)
  /\ \A id \in Ids(tasks) :
       \* the two updaters, applied at the time of the last call and now
       LET i  == FindIndex(tasks, id)
           rT == useTasksToggle(useTasksToggle(tasks, id, old.now), id, now)[i]
           rO == useOptimizedTasksToggle(
                   useOptimizedTasksToggle(tasks, id, old.now), id, now)[i]
       IN /\ rT.completed = tasks[i].completed
          /\ rT.completedAt = tasks[i].completedAt
          /\ rO.completed = tasks[i].completed
          /\ rO.completedAt = IF tasks[i].completed THEN now ELSE Null

\* a completed task has been toggled twice, at different times
C8_Witness ==
  /\ DoubleToggle /\ ret = "ok" /\ prevOp.ret = "ok"
  /\ prevOp.old.tasks[FindIndex(prevOp.old.tasks, lastArg)].completed
  /\ tasks[FindIndex(prevOp.old.tasks, lastArg)].completedAt
       # prevOp.old.tasks[FindIndex(prevOp.old.tasks, lastArg)].completedAt

\* C9: toggleTask(id) on a task of the collection succeeds whatever the
\* task's other fields, a dueDate in the past in particular: it flips
\* completed, sets completedAt to the current time when turning true and to
\* null when turning false, and sets updatedAt to the current time.  (Stated
\* here for the tasks whose category and priority are in their enums.)
C9_ToggleSucceeds ==
  (/\ lastOp = "toggleTask" /\ lastArg \in Ids(old.tasks)
   /\ old.tasks[FindIndex(old.tasks, lastArg)].category \in TASK_CATEGORIES
   /\ old.tasks[FindIndex(old.tasks, lastArg)].priority \in PRIORITY_LEVELS) =>
    LET i == FindIndex(old.tasks, lastArg)
    IN /\ ret = "ok"
       /\ tasks[i].completed = ~old.tasks[i].completed
       /\ tasks[i].completedAt = IF tasks[i].completed THEN old.now ELSE Null
       /\ tasks[i].updatedAt = old.now

\* the validation rules of the specification: non-empty trimmed text of at
\* most 500 characters, category and priority in their enums (or absent),
\* any due date
ValidInput(taskData) ==
  /\ TextLength(Trim(taskData.text)) > 0
  /\ TextLength(Trim(taskData.text)) <= SchemaTextMax
  /\ taskData.category \in TASK_CATEGORIES \cup {""}
  /\ taskData.priority \in PRIORITY_LEVELS \cup {""}

\* C10: addTask with a valid input succeeds, and the statistics afterwards
\* have total and pending one greater and completed unchanged.
C10_AddIncrementsStats ==
  (lastOp = "addTask" /\ ValidInput(lastInput)) =>
    /\ ret = "ok"
    /\ taskStats(tasks, old.now).total = taskStats(old.tasks, old.now).total + 1
    /\ taskStats(tasks, old.now).pending
         = taskStats(old.tasks, old.now).pending + 1
    /\ taskStats(tasks, old.now).completed
         = taskStats(old.tasks, old.now).completed

\* the inputs whose text is empty or only white space
BlankInputs == {taskData \in AddInputs : TextMissing(taskData.text)}

\* C11: addTask with an empty or white-space-only text fails with a
\* validation error that carries a non-empty list of errors, and leaves the
\* collection, the undo stack and the redo stack as they were (in
\* useAdvancedTasks and in useTasks).
C11_BlankTextRejected ==
  /\ (lastOp = "addTask" /\ TextMissing(lastInput.text)) =>
       /\ ret = "ValidationError"
       /\ ThrownError(ret).name = "Error"
       /\ ThrownError(ret).errors # {}
       /\ tasks = old.tasks
       /\ undoStack = old.undoStack
       /\ redoStack = old.redoStack
  /\ \A taskData \in BlankInputs :
       LET r == useTasksAddTask(tasks, taskData, nextId, now)
       IN /\ r.thrown.name = "Error"
          /\ r.thrown.errors # {}
          /\ r.tasks = tasks

\* C12: updateTask and deleteTask with an id that is not in the collection
\* fail with a not-found error, updateTask whose merged task fails validation
\* fails with a validation error, and in each of these cases the collection,
\* the undo stack and the redo stack are unchanged (in useAdvancedTasks and
\* in useTasks).
C12_FailuresLeaveStateUnchanged ==
  /\ (lastOp \in {"updateTask", "deleteTask"} /\ lastArg \notin Ids(old.tasks)) =>
       /\ ret = "NotFound"
       /\ ThrownError(ret).name = "Error"
       /\ tasks = old.tasks
       /\ undoStack = old.undoStack
       /\ redoStack = old.redoStack
  /\ (/\ lastOp = "updateTask" /\ lastArg \in Ids(old.tasks)
      /\ ~validateTask(UpdatedTask(old.tasks[FindIndex(old.tasks, lastArg)],
                                   lastInput, old.now), old.now).isValid) =>
       /\ ret = "ValidationError"
       /\ ThrownError(ret).name = "Error"
       /\ ThrownError(ret).errors # {}
       /\ tasks = old.tasks
       /\ undoStack = old.undoStack
       /\ redoStack = old.redoStack
  /\ \A updates \in Patches :
       /\ tasks # <<>> =>
            useTasksUpdateTask(tasks, nextId, updates, now).thrown.name = "Error"
       /\ useTasksUpdateTask(tasks, nextId, updates, now).tasks = tasks
       /\ \A id \in Ids(tasks) :
            LET r == useTasksUpdateTask(tasks, id, updates, now)
                i == FindIndex(tasks, id)
            IN ~validateTask(UpdatedTask(tasks[i], updates, now), now).isValid
                 => (r.thrown.name = "Error" /\ r.thrown.errors # {}
                     /\ r.tasks = tasks)
  /\ tasks # <<>> => useTasksDeleteTask(tasks, nextId).thrown.name = "Error"
  /\ useTasksDeleteTask(tasks, nextId).tasks = tasks

\* the tasks of ts whose id is not in ids, in order
Others(ts, ids) == SelectSeq(ts, LAMBDA task : task.id \notin ids)

\* C13: bulkDelete and bulkUpdate never fail because of ids that are not in
\* the collection: every task whose id is not among the given ids is left as
\* it was, and when none of the ids exists the collection is unchanged (in
\* useAdvancedTasks and in useTasks).
C13_BulkSkipsMissingIds ==
  /\ lastOp \in {"bulkUpdate", "bulkDelete"} =>
       /\ ret = "ok"
       /\ Others(tasks, lastInput.taskIds) = Others(old.tasks, lastInput.taskIds)
       /\ lastOp = "bulkUpdate" => Len(tasks) = Len(old.tasks)
       /\ lastOp = "bulkDelete" => Ids(tasks) \cap lastInput.taskIds = {}
       /\ lastInput.taskIds \cap Ids(old.tasks) = {} => tasks = old.tasks
  /\ \A taskIds \in IdSetArgsMixed :
       /\ \A updates \in BulkPatches :
            LET r == useTasksBulkUpdateTasks(tasks, taskIds, updates, now)
            IN /\ r.thrown = NoError
               /\ Len(r.tasks) = Len(tasks)
               /\ Others(r.tasks, taskIds) = Others(tasks, taskIds)
               /\ taskIds \cap Ids(tasks) = {} => r.tasks = tasks
       /\ LET r == useTasksBulkDeleteTasks(tasks, taskIds)
          IN /\ r.thrown = NoError
             /\ Others(r.tasks, taskIds) = Others(tasks, taskIds)
             /\ Ids(r.tasks) \cap taskIds = {}
             /\ taskIds \cap Ids(tasks) = {} => r.tasks = tasks

\* a bulkDelete of two tasks named one of them and an id that does not
\* exist: the one was deleted and the other kept
C13_Witness ==
  /\ lastOp = "bulkDelete"
  /\ ret = "ok"
  /\ Len(old.tasks) = 2
  /\ lastInput.taskIds \ Ids(old.tasks) # {}
  /\ lastInput.taskIds \cap Ids(old.tasks) # {}
  /\ Len(tasks) = 1

\* two collections with the same tasks in the same order, updatedAt aside
SameContent(a, b) ==
  /\ Len(a) = Len(b)
  /\ \A i \in 1..Len(a) :
       [a[i] EXCEPT !.updatedAt = Null] = [b[i] EXCEPT !.updatedAt = Null]

\* C14: importing (merge = false, validation on) the JSON export of the
\* current collection succeeds and yields a collection equal in content to
\* the original, updatedAt aside.  (Stated here for the collections whose
\* categories and priorities are all in their enums.)
C14_ExportImportRoundTrip ==
  (/\ lastOp = "importTasks" /\ lastArg = MergeArg(FALSE)
   /\ lastInput = exportTasks(old.tasks)
   /\ \A i \in 1..Len(old.tasks) :
        /\ old.tasks[i].category \in TASK_CATEGORIES
        /\ old.tasks[i].priority \in PRIORITY_LEVELS) =>
    /\ ret = "ok"
    /\ SameContent(tasks, old.tasks)

\* the file of the last importTasks call cannot be imported: it does not
\* parse, is not an array, or holds a task that fails validation
BadBatch ==
  \/ ~lastInput.parses
  \/ ~lastInput.isArray
  \/ \E i \in 1..Len(lastInput.text) :
       ~validateTask(JsonParse(lastInput.text)[i], old.now).isValid

\* C15: importTasks with validation on is all-or-nothing: when the file does
\* not parse, is not an array or holds a task that fails validation, the call
\* reports failure and the collection, the undo stack and the redo stack are
\* unchanged; a call that succeeds has imported the whole file.
C15_ImportAllOrNothing ==
  lastOp = "importTasks" =>
    /\ BadBatch =>
         /\ ret \in {"ImportError", "ValidationError"}
         /\ tasks = old.tasks
         /\ undoStack = old.undoStack
         /\ redoStack = old.redoStack
    /\ ~BadBatch =>
         /\ ret = "ok"
         /\ tasks = (IF lastArg = MergeArg(TRUE) THEN old.tasks ELSE <<>>)
                       \o JsonParse(lastInput.text)

\* a file with one valid and one invalid task was refused as a whole
C15_Witness ==
  /\ lastOp = "importTasks"
  /\ ret = "ValidationError"
  /\ Len(lastInput.text) = 2
  /\ validateTask(JsonParse(lastInput.text)[1], old.now).isValid
  /\ ~validateTask(JsonParse(lastInput.text)[2], old.now).isValid
  /\ tasks = old.tasks

\* the task `task` is the entry `entry` as replaceTasks keeps it: its text
\* trimmed, its other properties as given where the entry has them
KeptAs(task, entry) ==
  /\ task.text = Trim(entry.text)
  /\ task.completed = entry.completed
  /\ task.dueDate = entry.dueDate
  /\ task.estimatedTime = entry.estimatedTime
  /\ task.actualTime = entry.actualTime
  /\ entry.id # Null => task.id = entry.id
  /\ entry.createdAt # Null => task.createdAt = entry.createdAt
  /\ entry.order # Null => task.order = entry.order
  /\ entry.category # "" => task.category = entry.category
  /\ entry.priority # "" => task.priority = entry.priority

Range(s) == {s[i] : i \in 1..Len(s)}

\* C17: the 'completed' and the 'pending' filter share no task and together
\* hold every task of the collection, each once; every task of the 'overdue'
\* filter is a task of the 'pending' filter.
C17_FiltersPartition ==
  LET completed == filterTasks(tasks, "completed", now)
      pending   == filterTasks(tasks, "pending", now)
      overdue   == filterTasks(tasks, "overdue", now)
  IN /\ Range(completed) \cap Range(pending) = {}
     /\ Range(completed) \cup Range(pending) = Range(tasks)
     /\ Len(completed) + Len(pending) = Len(tasks)
     /\ Range(overdue) \subseteq Range(pending)
     /\ lastOp = "filterTasks" => ret = filterTasks(tasks, lastInput, now)

\* the 'overdue' filter was applied to a collection that holds an overdue
\* task, a completed task whose due date has passed and a pending task that
\* is not overdue
C17_Witness ==
  /\ lastOp = "filterTasks" /\ lastInput = "overdue"
  /\ ret # <<>>
  /\ \E i \in 1..Len(tasks) :
       tasks[i].completed /\ tasks[i].dueDate # Null /\ tasks[i].dueDate < now
  /\ \E i \in 1..Len(tasks) : ~tasks[i].completed /\ tasks[i].dueDate = Null

\* high, medium, low as 1, 2, 3
PriorityRank(priority) ==
  CASE priority = "high" -> 1 [] priority = "medium" -> 2 [] priority = "low" -> 3

\* C18: sortTasks(collection, 'priority') returns a permutation of the
\* collection in which every high task precedes every medium task and every
\* medium task every low task, tasks of equal priority being in their
\* original relative order; the collection given is not modified.  (In the
\* collections here the id of a task is its position.)
C18_SortByPriorityStable ==
  lastOp = "sortTasks" =>
    /\ Len(ret) = Len(old.tasks)
    /\ Range(ret) = Range(old.tasks)
    /\ \A i, j \in 1..Len(ret) :
         i < j =>
           /\ ({ret[i].priority, ret[j].priority} \subseteq PRIORITY_LEVELS
                 => PriorityRank(ret[i].priority) <= PriorityRank(ret[j].priority))
           /\ (ret[i].priority = ret[j].priority => ret[i].id < ret[j].id)
    /\ tasks = old.tasks

\* a collection with two tasks of the same priority after a task of lower
\* priority was sorted
C18_Witness ==
  /\ lastOp = "sortTasks"
  /\ Len(tasks) = 3
  /\ tasks[1].priority = "low"
  /\ tasks[2].priority = "high" /\ tasks[3].priority = "high"
  /\ ret = <<tasks[2], tasks[3], tasks[1]>>

\* r is x / y rounded to the nearest integer, halves upwards (y > 0)
IsRounded(r, x, y) == 2 * r * y <= 2 * x + y /\ 2 * x + y < 2 * (r + 1) * y

\* C19: the statistics of the collection satisfy total = number of tasks,
\* completed + pending = total, overdue <= pending, completionRate =
\* round(100 * completed / total) within 0..100, and completionRate = 0 for
\* the empty collection.  (useTasks.taskStats computes no completionRate; the
\* other relations are stated of it too.)
C19_StatsConsistent ==
  LET stats == taskStats(tasks, now)
      basic == useTasksTaskStats(tasks, now)
  IN /\ stats.total = Len(tasks)
     /\ stats.completed + stats.pending = stats.total
     /\ stats.overdue <= stats.pending
     /\ stats.completionRate \in 0..100
     /\ stats.total = 0 => stats.completionRate = 0
     /\ stats.total > 0 =>
          IsRounded(stats.completionRate, 100 * stats.completed, stats.total)
     /\ basic.total = Len(tasks)
     /\ basic.completed + basic.pending = basic.total
     /\ basic.overdue <= basic.pending
     /\ lastOp = "taskStats" => ret = stats

\* the statistics of two completed tasks and an overdue one were computed
C19_Witness ==
  /\ lastOp = "taskStats"
  /\ ret.total = 3 /\ ret.completed = 2 /\ ret.overdue = 1
  /\ ret.completionRate = 67

\* C20 (as claimed): the productivity score is max(0, round(completionRate -
\* 20 * overdue / total)) with completionRate the rounded statistic, taken as
\* 0 for the empty collection, and lies in 0..100.  (Stated here for the
\* non-empty collections.)
C20_ScoreFromRoundedRate ==
  lastOp = "calculateProductivityScore" =>
    LET stats == taskStats(old.tasks, old.now)
    IN /\ ret \in 0..100
       /\ stats.total > 0 =>
            ret = Max(0, RoundDiv(stats.completionRate * stats.total
                                    - 20 * stats.overdue, stats.total))

\* C20 (amended): the productivity score is 100 for the empty collection and
\* otherwise max(0, round(100 * completed / total - 20 * overdue / total)),
\* rounded once from the exact ratios; it lies in 0..100.
C20_ScoreAmended ==
  lastOp = "calculateProductivityScore" =>
    LET stats == taskStats(old.tasks, old.now)
        x     == 100 * stats.completed - 20 * stats.overdue
    IN /\ ret \in 0..100
       /\ stats.total = 0 => ret = 100
       /\ stats.total > 0 =>
            \/ ret = 0 /\ 2 * x + stats.total < 2 * stats.total
            \/ ret > 0 /\ IsRounded(ret, x, stats.total)

\* the score of one completed, one overdue and one other task is 27, where
\* the rounded completion rate gives 26
C20_Witness ==
  /\ lastOp = "calculateProductivityScore"
  /\ taskStats(old.tasks, old.now).total = 3
  /\ taskStats(old.tasks, old.now).completed = 1
  /\ taskStats(old.tasks, old.now).overdue = 1
  /\ ret = 27

(***************************************************************************)
(* C21: Reorder keeps the tasks and renumbers `order`                      *)
(***************************************************************************)
Reorders == {"moveTask", "reorderTasks"}
\* `result` is `before` with the element at JavaScript index `from` moved to
\* index `to`, every field but order and updatedAt as it was
MovedTo(before, result, from, to) ==
  /\ Len(result) = Len(before)
  /\ result[to + 1].id = before[from + 1].id
  /\ [i \in 1..(Len(result) - 1) |-> RemoveAt(result, to)[i].id]
       = [i \in 1..(Len(before) - 1) |-> RemoveAt(before, from)[i].id]
  /\ \A i \in 1..Len(result) : \E j \in 1..Len(before) :
        /\ before[j].id = result[i].id
        /\ [result[i] EXCEPT !.order = 0, !.updatedAt = 0]
             = [before[j] EXCEPT !.order = 0, !.updatedAt = 0]

\* C21 as claimed: after a reorder by either hook the collection holds the
\* same tasks with one element moved, and every task's order field is its
\* positional index 0..n-1.
C21_ReorderRenumbersFromZero ==
  (ops = 1 /\ lastOp \in Reorders) =>
     /\ MovedTo(tasks, ret, lastInput.from, lastInput.to)
     /\ \A i \in 1..Len(ret) : ret[i].order = i - 1

\* C21 amended: the same tasks with one element moved; reorderTasks numbers
\* `order` 0..n-1 by position, moveTask numbers it 1..n.
C21_ReorderAmended ==
  (ops = 1 /\ lastOp \in Reorders) =>
     /\ MovedTo(tasks, ret, lastInput.from, lastInput.to)
     /\ \A i \in 1..Len(ret) :
          ret[i].order = IF lastOp = "moveTask" THEN i ELSE i - 1

\* the first of three tasks was moved to the end by moveTask
C21_Witness ==
  /\ ops = 1 /\ lastOp = "moveTask"
  /\ Len(tasks) = 3
  /\ lastInput = [from |-> 0, to |-> 2]
  /\ Ids(ret) = Ids(tasks)
  /\ ret[3].id = tasks[1].id

(***************************************************************************)
(* C25: updateTask, toggleTask and deleteTask leave the other tasks alone  *)
(***************************************************************************)
SingleTaskOps == {"updateTask", "toggleTask", "deleteTask"}
\* the positions of `ts` that hold a task with this id
Carriers(ts, taskId) == {i \in 1..Len(ts) : ts[i].id = taskId}
\* every task of `before` with another id is in `after`, unchanged and in
\* the same relative order; `after` holds nothing else but tasks with this id
OthersUntouched(before, after, taskId) ==
  Filter(after, LAMBDA task : task.id # taskId)
    = Filter(before, LAMBDA task : task.id # taskId)

Applied(op, before, arg, input, clock) ==
  CASE op = "addTask" ->
         Append(before, NewTask(input, arg, clock, Len(before) + 1))
    [] op = "bulkUpdate" ->
         Map(before, LAMBDA task :
               IF task.id \in input.taskIds
               THEN UpdatedTask(task, input.updates, clock) ELSE task)
    [] op = "deleteTask" ->
         Filter(before, LAMBDA task : task.id # arg)
    [] OTHER -> before

\* C23: whether or not the hook has rendered since the mutation before, a
\* successful mutation yields the collection it makes of the collection as it
\* was when the call was issued, and pushes that collection on the undo stack.
C23_BackToBackAppliedInOrder ==
  (lastOp \in {"addTask", "bulkUpdate", "deleteTask"} /\ ret = "ok") =>
     /\ tasks = Applied(lastOp, old.tasks, lastArg, lastInput, now)
     /\ undoStack # <<>>
     /\ PreviousState(undoStack) = old.tasks

(***************************************************************************)
(* C22: load on startup, save after every mutation                         *)
(***************************************************************************)
\* the collection a slot holds: C for a stored array, the empty collection
\* for an absent or malformed slot
SlotCollection(slot) ==
  IF slot.present /\ slot.parses /\ slot.isArray
  THEN JsonParse(slot.text) ELSE <<>>
Loaded == effects = <<>> \/ Head(effects) # "load"

\* C22, startup: once the load effect has run and until the first user
\* mutation, the in-memory collection is the persisted one (empty for an
\* absent or malformed slot).
C22_StartupLoadsSlot ==
  (ops = 0 /\ Loaded) => tasks = SlotCollection(trace.initial)

\* C22, no clobbering: between startup and the first user mutation the slot
\* never holds a collection other than the stored array C it started with.
C22_SlotKeepsStartupCollection ==
  (ops = 0 /\ trace.initial.present /\ trace.initial.parses
     /\ trace.initial.isArray) =>
     SlotCollection(storage) = SlotCollection(trace.initial)

\* C22, eventually saved: the slot holds the in-memory collection again and
\* again (after startup and after every mutation).
C22_EventuallySaved ==
  []<>(storage.present /\ SlotCollection(storage) = tasks)

(***************************************************************************)
(* C24: streaks                                                            *)
(***************************************************************************)
\* the calendar days on which a task of the collection was completed
CompletionDays(ts) ==
  {DateOf(ts[i].completedAt) :
     i \in {j \in 1..Len(ts) : ts[j].completed /\ ts[j].completedAt # Null}}
\* the number of consecutive calendar days of `days` that end at day d
RunEndingAt(days, d) ==
  Cardinality({k \in 0..MaxDays : \A j \in 0..k : (d - j) \in days})

\* C24: the current streak is 0 unless the most recent completion day is
\* today or yesterday, and is otherwise the run of consecutive calendar days
\* ending at that day; the longest streak is the longest run of consecutive
\* calendar days of the history, so longest >= current.
C24_StreaksFollowCalendar ==
  (ops = 1 /\ lastOp = "calculateStreakData") =>
     LET days   == CompletionDays(tasks)
         today  == DateOf(now)
         latest == CHOOSE d \in days : \A e \in days : e <= d
     IN /\ ret.longest >= ret.current
        /\ days = {} => ret.current = 0 /\ ret.longest = 0
        /\ days # {} =>
             /\ ret.current = IF latest \in {today, today - 1}
                              THEN RunEndingAt(days, latest) ELSE 0
             /\ \A d \in days : ret.longest >= RunEndingAt(days, d)
             /\ \E d \in days : ret.longest = RunEndingAt(days, d)

(***************************************************************************)
(* C26: every operation handed to batchOperation is applied                *)
(***************************************************************************)
IsPrefix(s, t) == Len(s) <= Len(t) /\ s = SubSeq(t, 1, Len(s))

\* the operations are applied at most once and in the order of their issue
C26_AppliedInIssueOrder == IsPrefix(trace.applied, trace.issued)

\* C26: every operation handed to batchOperation is eventually applied,
\* exactly once and in the order of issue, whatever the interleaving of
\* further operations, the batch timer and unmount.
C26_EveryOperationApplied ==
  /\ [](IsPrefix(trace.applied, trace.issued))
  /\ <>[](trace.applied = trace.issued)

(***************************************************************************)
(* C27: BatchProcessor loses nothing and processes one batch at a time     *)
(***************************************************************************)
NoDuplicates(q) == \A i, j \in DOMAIN q : i # j => q[i] # q[j]

\* one batch at most is in flight, of batchSize items at most, exactly while
\* `processing` is set; what was handed over is the beginning of what was
\* added, and the rest is in the queue
C27_BatchSafety ==
  /\ Len(batchProcessor.inflight) <= 1
  /\ batchProcessor.processing <=> batchProcessor.inflight # <<>>
  /\ \A i \in DOMAIN batchProcessor.inflight :
        /\ Len(batchProcessor.inflight[i]) <= batchSize
        /\ batchProcessor.inflight[i] # <<>>
  /\ NoDuplicates(trace.applied)
  /\ trace.applied \o batchProcessor.queue = trace.issued

\* C27: at most one batch is processed at a time, a batch holds at most
\* batchSize items, and every item given to add() is eventually handed to
\* processBatchItems, exactly once.
C27_EveryItemProcessedOnce ==
  /\ []C27_BatchSafety
  /\ <>[](trace.applied = trace.issued)

\* an item was added while a batch was in flight and has been handed over
\* with a later batch
C27_Witness ==
  /\ Len(trace.issued) = MaxItems
  /\ trace.applied = trace.issued
  /\ batchProcessor.processing
  /\ Len(batchProcessor.inflight[1]) = 1
  /\ batchProcessor.timers # {}

(***************************************************************************)
(* C28: TaskBatchProcessor applies operations in the order added           *)
(***************************************************************************)
\* C28: the operations queued through TaskBatchProcessor reach the task
\* store in the order in which they were added, operations of different
\* types interleaved within one batch included.
C28_OperationsApplyInOrderAdded == IsPrefix(trace.applied, trace.issued)

(***************************************************************************)
(* C29: StateManager history and undo                                      *)
(***************************************************************************)
\* C29: the history never holds more than 50 entries, and an undo() called
\* while a setState is applied and not undone returns true and restores the
\* state that preceded the most recent such setState.
C29_UndoRestoresPriorState ==
  /\ Len(stateManager.history) <= maxHistory
  /\ (lastOp = "undo" /\ trace.undoableBefore # <<>>) =>
        /\ ret = "true"
        /\ stateManager.state = PreviousState(trace.undoableBefore)

(***************************************************************************)
(* C30: AdvancedCache size, key sets, expiry and eviction                  *)
(***************************************************************************)
\* the size bound, the equal key sets, and no expired value from get
C30_CacheSafety ==
  /\ Len(advancedCache.cache) <= maxSize
  /\ MapKeys(advancedCache.cache) = MapKeys(advancedCache.accessOrder)
  /\ Len(advancedCache.accessOrder) = Len(advancedCache.cache)
  /\ (lastOp = "get" /\ ret # "undefined") =>
        /\ lastArg \in MapKeys(advancedCache.cache)
        /\ LET item == MapGet(advancedCache.cache, lastArg)
           IN item.expiresAt = Null \/ old.now <= item.expiresAt

\* C30: the cache never holds more than maxSize entries, cache and
\* accessOrder hold the same keys, get returns no expired value, and the
\* entry a set evicts from a full cache is the least recently used one
\* (least recently set or read).
C30_EvictsLeastRecentlyUsed ==
  /\ C30_CacheSafety
  /\ (lastOp = "set" /\ trace.evicted # {}) =>
        trace.evicted = {Head(trace.recentBefore)}

====
